---- MODULE Spec2Model ----
(***************************************************************************)
(* go-stats: the engines that walk a seed of Go modules, resolve them      *)
(* through the Go module proxy and write Module nodes and DEPENDS_ON       *)
(* edges to Neo4j.  The repository holds five generations of the engine:   *)
(*   rec   main.go, recursive processModules            (unnamed/part_002) *)
(*   list  growing modules slice                (unnamed/part_008:675-935) *)
(*   chan  chModules channel + pendingModules     (unnamed/part_008:1-332) *)
(*   part  hash-partitioned seed                (unnamed/part_008:334-673) *)
(*   cur   cmd/process-modules.go, the current engine                      *)
(* Each engine has its own Init/Next/Spec over the shared variables.       *)
(***************************************************************************)
EXTENDS Integers, Sequences, FiniteSets, Bags, TLC

VARIABLES
    engine,         \* which generation of the engine runs
    world,          \* the registry state (which manifests exist, what they require)
    netFaults,      \* whether the registry may time out, fail or miss its cache
    storeFaults,    \* whether a Graph Store write may fail
    initialModules, \* the seed, as loaded
    sent,           \* number of seed records the producer goroutine has gone through
    queue,          \* the work queue (modulesToProcess / chModules / modules)
    closed,         \* the work queue channel has been closed
    prodPc,         \* the seed producer goroutine: "load" or "send"
    pending,        \* pendingModules (sync.Map keyed by path)
    known,          \* knownModules (sync.Map keyed by module)
    mainPc,         \* position of the handler's own goroutine
    mainM,          \* the module the handler holds between receive and g.Go
    tasks,          \* every goroutine started by g.Go, in start order
    fanouts,        \* the fan-out goroutines of the chan engine
    cancelled,      \* gCtx has been cancelled by the errgroup
    gErr,           \* the errgroup holds a first error
    exitCode,       \* "none" while running, then the exit status
    nodes,          \* Graph Store: Module nodes
    edges,          \* Graph Store: DEPENDS_ON relationships (a bag)
    moduleInfoCache,        \* process-wide LRU of the current engine
    latestModuleInfoCache,  \* process-wide LRU of the current engine
    run,            \* how many times the command has been run on this store
    afterRun1,      \* the Graph Store as the first run left it
    lookup,         \* one registry lookup on its own: its position and the requests it made
    parsed,         \* one call of semver.Parse on its own: the input and what it returned
    cmd             \* the goroutines and channels of one of the other commands of the binary

vars == <<engine, world, netFaults, storeFaults, initialModules, sent, queue, closed,
          prodPc, pending, known, mainPc, mainM, tasks, fanouts, cancelled, gErr,
          exitCode, nodes, edges, moduleInfoCache, latestModuleInfoCache, run, afterRun1, lookup, parsed, cmd>>

\* Groups of variables, for the UNCHANGED clauses.
envVars   == <<engine, world, netFaults, storeFaults, initialModules, run, afterRun1, lookup,
               parsed, cmd>>
feedVars  == <<sent, queue, closed, prodPc>>
dedupVars == <<pending, known>>
mainVars  == <<mainPc, mainM, exitCode>>
groupVars == <<tasks, gErr, cancelled>>
storeVars == <<nodes, edges>>
cacheVars == <<moduleInfoCache, latestModuleInfoCache>>

----------------------------------------------------------------------------
\* Bounds of the model.

MaxSeedLen == 2
Parallel == 2
QueueCap == 2
MaxRuns == 2

----------------------------------------------------------------------------
\* Module paths and versions.

PA == "example.com/a"
PB == "example.com/b"
PC == "github.com/x/c"
PD == "example.com/d"
PBU == "example.com/B"

\* strings.ToLower on the paths of the model.
ToLower(p) == IF p = PBU THEN PB ELSE p

V1 == "v1.0.0"
VShort == "v1.2"
V2 == "v1.1.0"
NoVersion == ""

Mod(p, v) == [Path |-> p, Version |-> v]

NoModule == Mod("", "")

\* The characters of the version strings the model uses.
Chars(s) ==
    CASE s = "v1.0.0" -> <<"v", "1", ".", "0", ".", "0">>
      [] s = "v1.2"   -> <<"v", "1", ".", "2">>
      [] s = "v1.1.0" -> <<"v", "1", ".", "1", ".", "0">>
      [] s = "v1.2.3-beta.1" -> <<"v", "1", ".", "2", ".", "3", "-", "b", ".", "1">>
      [] s = "v2.0.0+meta"   -> <<"v", "2", ".", "0", ".", "0", "+", "m">>
      [] OTHER        -> <<>>

----------------------------------------------------------------------------
\* strings.TrimPrefix, strings.Cut, strings.Split on character sequences.

TrimPrefix(s, c) == IF Len(s) >= 1 /\ s[1] = c THEN Tail(s) ELSE s

IndexOf(s, c) ==
    IF \E i \in 1..Len(s) : s[i] = c
    THEN CHOOSE i \in 1..Len(s) : s[i] = c /\ \A j \in 1..(i - 1) : s[j] # c
    ELSE 0

Cut(s, c) ==
    LET i == IndexOf(s, c) IN
    IF i = 0 THEN [before |-> s, after |-> <<>>, found |-> FALSE]
    ELSE [before |-> SubSeq(s, 1, i - 1), after |-> SubSeq(s, i + 1, Len(s)), found |-> TRUE]

RECURSIVE Split(_, _)
Split(s, c) ==
    LET i == IndexOf(s, c) IN
    IF i = 0 THEN <<s>>
    ELSE <<SubSeq(s, 1, i - 1)>> \o Split(SubSeq(s, i + 1, Len(s)), c)

ZeroSemver == [ok |-> FALSE, Major |-> <<>>, Minor |-> <<>>, Patch |-> <<>>, Label |-> <<>>]

\* Parse that takes three tokens or more.
ParseAtLeastThree(version) ==
    LET trimmed == TrimPrefix(version, "v")
        dash    == Cut(trimmed, "-")
        plus    == Cut(trimmed, "+")
        core    == IF dash.found THEN dash.before ELSE plus.before
        label   == IF dash.found THEN dash.after ELSE plus.after
        tokens  == Split(core, ".")
    IN  IF Len(tokens) < 3 THEN ZeroSemver
        ELSE [ok |-> TRUE, Major |-> tokens[1], Minor |-> tokens[2],
              Patch |-> tokens[3], Label |-> label]

\* semver.Parse / parseVersion on the characters of the version.
Parse(version) ==
    LET trimmed == TrimPrefix(version, "v")
        dash    == Cut(trimmed, "-")
        plus    == Cut(trimmed, "+")
        core    == IF dash.found THEN dash.before ELSE plus.before
        label   == IF dash.found THEN dash.after ELSE plus.after
        tokens  == Split(core, ".")
    IN  IF Len(tokens) # 3 THEN ZeroSemver
        ELSE [ok |-> TRUE, Major |-> tokens[1], Minor |-> tokens[2],
              Patch |-> tokens[3], Label |-> label]

parseVersion(version) == Parse(Chars(version))

\* None of the other commands is running.
NoCmd == [pc |-> "idle"]

\* No call of Parse yet.
NoParse == [version |-> <<>>, pc |-> "idle", out |-> ZeroSemver]

----------------------------------------------------------------------------
\* The registry (proxy.golang.org): a fixed dependency graph per world.

Req(p, v, indirect) == [Mod |-> Mod(p, v), Indirect |-> indirect]

Worlds == {"e2e", "diamond", "missing", "versions"}

Paths == {PA, PB, PC, PD}

\* modFile.Require of the go.mod the registry serves for path p.
Require(w, p) ==
    CASE w = "e2e" /\ p = PA     -> <<Req(PB, V1, FALSE)>>
      [] w = "diamond" /\ p = PA -> <<Req(PB, V1, FALSE), Req(PC, V1, FALSE), Req(PD, V1, TRUE)>>
      [] w = "diamond" /\ p = PB -> <<Req(PC, V1, FALSE)>>
      [] w = "missing" /\ p = PA -> <<Req(PB, V1, FALSE), Req(PC, V1, FALSE)>>
      [] w = "versions" /\ p = PA -> <<Req(PC, V1, FALSE)>>
      [] w = "versions" /\ p = PB -> <<Req(PC, V2, FALSE)>>
      [] OTHER                   -> <<>>

\* Whether the registry knows the path at all (@latest answers 200).
LatestExists(w, p) == p \in Paths

LatestVersion(w, p) == V1

\* Whether <path>/@v/<version>.info answers 200: a tagged version, or a
\* version query such as v1.2 that the proxy resolves.
InfoExists(w, p, v) == p \in Paths /\ v \in {V1, V2, VShort}

\* Whether <path>/@v/<version>.mod answers 200.
ModFileExists(w, p, v) == p \in Paths /\ v \in {V1, V2, VShort} /\ ~(w = "missing" /\ p = PB)

\* The HTTP outcomes one request can have.  A cancelled context fails the
\* request before it is sent; a cached-only request may miss.
Answers(exists, cachedOnly) ==
    IF cancelled THEN {"ctx"}
    ELSE (IF exists THEN {"200"} ELSE {"404"})
         \cup (IF netFaults THEN {"500", "timeout"} ELSE {})
         \cup (IF netFaults /\ cachedOnly THEN {"404"} ELSE {})

\* client.GetModuleLatestInfo and client.GetModuleModFile: the error of a status.
ErrOfLatest(status) ==
    CASE status = "200"     -> "ok"
      [] status = "404"     -> "notfound"
      [] status = "timeout" -> "timeout"
      [] OTHER              -> "other"

\* client.GetModuleInfo: every status but 200 is a generic error.
ErrOfInfo(status) ==
    CASE status = "200"     -> "ok"
      [] status = "timeout" -> "timeout"
      [] OTHER              -> "other"

\* client.GetModuleModFile: as GetModuleLatestInfo, and a body that does not
\* parse is ErrInvalidModFile.
ErrOfModFile(status) == IF status = "invalid" THEN "invalid" ELSE ErrOfLatest(status)

\* Retrying on every error instead of on ErrModuleNotFound alone.
IsAnyError(err) == err # "ok"

\* errors.Is(err, goproxy.ErrModuleNotFound)
IsNotFound(err) == err = "notfound"

\* The callers' two-tier policy: the cached-only request first, the
\* authoritative one only after ErrModuleNotFound.  r1, r2 are the errors of
\* the two requests; the result is "ok" or the error the caller returns.
TwoTier(r1, r2) ==
    IF r1 = "ok" THEN "ok"
    ELSE IF ~IsNotFound(r1) THEN r1
    ELSE r2

\* No lookup under way.
NoLookup == [kind |-> "", m |-> NoModule, pc |-> "idle", log |-> <<>>, err |-> "", n |-> 0]

----------------------------------------------------------------------------
\* The Graph Store (Neo4j).  A node is its properties; org = NoOrg is a node
\* without the org property.  Every ExecuteQuery is one transaction.

NoOrg == "<none>"

Node(name, version, org) == [name |-> name, version |-> version, org |-> org]

Edge(from, to) == [from |-> from, to |-> to, type |-> "DEPENDS_ON"]

RevEdge(from, to) == [from |-> from, to |-> to, type |-> "IS_DEPENDED_ON_BY"]

extractOrg(p) == IF p = PC THEN "x" ELSE ""

\* MERGE (m:Module {name, version}): match on the two properties alone.
MatchKey(ns, name, version) == {n \in ns : n.name = name /\ n.version = version}

MergeKey(ns, name, version) ==
    IF MatchKey(ns, name, version) # {} THEN ns
    ELSE ns \cup {Node(name, version, NoOrg)}

\* MERGE (m:Module {name, version, org}): a node without org does not match.
MergeOrg(ns, name, version, org) == ns \cup {Node(name, version, org)}

\* SET m += {org: ...} on the nodes matched by (name, version).
SetOrg(ns, name, version, org) ==
    {IF n.name = name /\ n.version = version THEN Node(name, version, org) ELSE n : n \in ns}

SetOrgEdges(es, name, version, org) ==
    LET ren(n) == IF n.name = name /\ n.version = version THEN Node(name, version, org) ELSE n
        mv(e)  == [e EXCEPT !.from = ren(e.from), !.to = ren(e.to)]
        img    == {mv(e) : e \in DOMAIN es}
    IN  [e \in img |-> BagCardinality([x \in {y \in DOMAIN es : mv(y) = e} |-> es[x]])]

\* MERGE (a)-[:DEPENDS_ON]->(b) and CREATE (a)-[:DEPENDS_ON]->(b).
MergeEdge(es, e) == IF BagIn(e, es) THEN es ELSE es (+) SetToBag({e})

CreateEdge(es, e) == es (+) SetToBag({e})

\* Direct without the `if dependency.Indirect { continue }` of the loop.
DirectWithIndirect(reqs) == [j \in 1..Len(reqs) |-> reqs[j].Mod]

\* The direct requirements of a manifest, in order.
RECURSIVE Direct(_)
Direct(reqs) ==
    IF reqs = <<>> THEN <<>>
    ELSE IF Head(reqs).Indirect THEN Direct(Tail(reqs))
    ELSE <<Head(reqs).Mod>> \o Direct(Tail(reqs))

MergeEdges(es, S) == es (+) SetToBag({e \in S : ~BagIn(e, es)})

\* What one ExecuteQuery can do: a write under a cancelled context fails.
StoreAnswers ==
    IF cancelled THEN {FALSE}
    ELSE IF storeFaults THEN {TRUE, FALSE}
    ELSE {TRUE}

----------------------------------------------------------------------------
\* Goroutines started by g.Go.

Task(m, pc) == [m |-> m, pc |-> pc, res |-> "", ver |-> m.Version, k |-> 0]

NumActive == Cardinality({i \in DOMAIN tasks : tasks[i].pc # "done"})

\* return nil / return nil, nil: the identity is skipped or done.
Return(i, res) ==
    /\ tasks' = [tasks EXCEPT ![i].pc = "done", ![i].res = res]
    /\ UNCHANGED <<gErr, cancelled>>

\* return err: the errgroup keeps the first error and cancels gCtx.
ReturnErr(i) ==
    /\ tasks' = [tasks EXCEPT ![i].pc = "done", ![i].res = "err"]
    /\ gErr' = TRUE
    /\ cancelled' = TRUE

Goto(i, pc) ==
    /\ tasks' = [tasks EXCEPT ![i].pc = pc]
    /\ UNCHANGED <<gErr, cancelled>>

RECURSIVE SeqsUpTo(_, _)
SeqsUpTo(S, n) ==
    IF n = 0 THEN {<<>>}
    ELSE LET shorter == SeqsUpTo(S, n - 1)
         IN  shorter \cup {Append(q, x) : q \in {r \in shorter : Len(r) = n - 1}, x \in S}

InitCommon ==
    /\ world \in Worlds
    /\ netFaults \in BOOLEAN
    /\ storeFaults \in BOOLEAN
    /\ sent = 0
    /\ closed = FALSE
    /\ prodPc = "load"
    /\ known = {}
    /\ mainM = NoModule
    /\ tasks = <<>>
    /\ fanouts = <<>>
    /\ cancelled = FALSE
    /\ gErr = FALSE
    /\ exitCode = "none"
    /\ nodes = {}
    /\ edges = EmptyBag
    /\ moduleInfoCache = {}
    /\ latestModuleInfoCache = {}
    /\ run = 1
    /\ afterRun1 = [nodes |-> {}, edges |-> EmptyBag]
    /\ lookup = NoLookup
    /\ parsed = NoParse
    /\ cmd = NoCmd

----------------------------------------------------------------------------
\* cur: cmd/process-modules.go.

CurSeedIds == {Mod(PA, NoVersion), Mod(PA, V1), Mod(PB, V1), Mod(PA, VShort)}

CurInit ==
    /\ InitCommon
    /\ engine = "cur"
    /\ queue = <<>>
    /\ pending = {}
    /\ initialModules \in SeqsUpTo(CurSeedIds, MaxSeedLen)
    /\ mainPc = "range"

\* The producer goroutine: modulesToProcess <- m, blocking while the channel is full.
cur_Produce ==
    /\ engine = "cur"
    /\ sent < Len(initialModules)
    /\ Len(queue) < QueueCap
    /\ queue' = Append(queue, initialModules[sent + 1])
    /\ sent' = sent + 1
    /\ UNCHANGED <<envVars, closed, prodPc, dedupVars, mainVars, groupVars, fanouts, storeVars, cacheVars>>

\* The producer's deferred close(modulesToProcess).
cur_Close ==
    /\ engine = "cur"
    /\ sent = Len(initialModules)
    /\ ~closed
    /\ closed' = TRUE
    /\ UNCHANGED <<envVars, sent, queue, prodPc, dedupVars, mainVars, groupVars, fanouts, storeVars, cacheVars>>

\* for m := range modulesToProcess: one receive.
cur_Receive ==
    /\ engine = "cur"
    /\ mainPc = "range"
    /\ queue # <<>>
    /\ mainM' = Head(queue)
    /\ queue' = Tail(queue)
    /\ mainPc' = "go"
    /\ UNCHANGED <<envVars, sent, closed, prodPc, dedupVars, exitCode, groupVars, fanouts, storeVars, cacheVars>>

\* The range loop ends on the closed, drained channel.
cur_RangeEnd ==
    /\ engine = "cur"
    /\ mainPc = "range"
    /\ queue = <<>>
    /\ closed
    /\ mainPc' = "wait"
    /\ UNCHANGED <<envVars, feedVars, dedupVars, mainM, exitCode, groupVars, fanouts, storeVars, cacheVars>>

\* g.Go under g.SetLimit(parallel): blocks until a slot is free.
cur_Go ==
    /\ engine = "cur"
    /\ mainPc = "go"
    /\ NumActive < Parallel
    /\ tasks' = Append(tasks, Task(mainM, "info"))
    /\ mainPc' = "range"
    /\ mainM' = NoModule
    /\ UNCHANGED <<envVars, feedVars, dedupVars, exitCode, gErr, cancelled, fanouts, storeVars, cacheVars>>

\* g.Wait(), then os.Exit(1) or return 0.
cur_Wait ==
    /\ engine = "cur"
    /\ mainPc = "wait"
    /\ NumActive = 0
    /\ mainPc' = IF gErr THEN "exited" ELSE "returned"
    /\ exitCode' = IF gErr THEN "1" ELSE "0"
    /\ UNCHANGED <<envVars, feedVars, dedupVars, mainM, groupVars, fanouts, storeVars, cacheVars>>

\* getModuleInfo adding to the cache whatever the lookup returned.
cur_getModuleInfoCacheErrors(i) ==
    /\ engine = "cur"
    /\ tasks[i].pc = "info"
    /\ LET m == tasks[i].m IN
       IF m \in moduleInfoCache
       THEN Goto(i, "latest") /\ UNCHANGED moduleInfoCache
       ELSE \E s1 \in Answers(InfoExists(world, m.Path, m.Version), TRUE),
               s2 \in Answers(InfoExists(world, m.Path, m.Version), FALSE) :
                /\ moduleInfoCache' = moduleInfoCache \cup {m}
                /\ IF TwoTier(ErrOfInfo(s1), ErrOfInfo(s2)) = "ok"
                   THEN Goto(i, "latest")
                   ELSE Return(i, "skip")
    /\ UNCHANGED <<envVars, feedVars, dedupVars, mainVars, fanouts, storeVars, latestModuleInfoCache>>

\* getModuleInfo: cache, then the two-tier lookup; an error skips the module.
cur_getModuleInfo(i) ==
    /\ engine = "cur"
    /\ tasks[i].pc = "info"
    /\ LET m == tasks[i].m IN
       IF m \in moduleInfoCache
       THEN Goto(i, "latest") /\ UNCHANGED moduleInfoCache
       ELSE \E s1 \in Answers(InfoExists(world, m.Path, m.Version), TRUE),
               s2 \in Answers(InfoExists(world, m.Path, m.Version), FALSE) :
                IF TwoTier(ErrOfInfo(s1), ErrOfInfo(s2)) = "ok"
                THEN Goto(i, "latest") /\ moduleInfoCache' = moduleInfoCache \cup {m}
                ELSE Return(i, "skip") /\ UNCHANGED moduleInfoCache
    /\ UNCHANGED <<envVars, feedVars, dedupVars, mainVars, fanouts, storeVars, latestModuleInfoCache>>

cur_getLatestModuleInfo(i) ==
    /\ engine = "cur"
    /\ tasks[i].pc = "latest"
    /\ LET m == tasks[i].m IN
       IF m.Path \in latestModuleInfoCache
       THEN Goto(i, "parse") /\ UNCHANGED latestModuleInfoCache
       ELSE \E s1 \in Answers(LatestExists(world, m.Path), TRUE),
               s2 \in Answers(LatestExists(world, m.Path), FALSE) :
                IF TwoTier(ErrOfLatest(s1), ErrOfLatest(s2)) = "ok"
                THEN Goto(i, "parse") /\ latestModuleInfoCache' = latestModuleInfoCache \cup {m.Path}
                ELSE Return(i, "skip") /\ UNCHANGED latestModuleInfoCache
    /\ UNCHANGED <<envVars, feedVars, dedupVars, mainVars, fanouts, storeVars, moduleInfoCache>>

\* parseVersion(m.Version) and parseVersion(latestModuleInfo.Version): a
\* version that does not parse is returned as an error to the errgroup.
cur_parseVersion(i) ==
    /\ engine = "cur"
    /\ tasks[i].pc = "parse"
    /\ LET m == tasks[i].m IN
       IF parseVersion(m.Version).ok /\ parseVersion(LatestVersion(world, m.Path)).ok
       THEN Goto(i, "node")
       ELSE ReturnErr(i)
    /\ UNCHANGED <<envVars, feedVars, dedupVars, mainVars, fanouts, storeVars, cacheVars>>

\* MERGE (m:Module {name, version}) SET m += {...}.
cur_createModuleNode(i) ==
    /\ engine = "cur"
    /\ tasks[i].pc = "node"
    /\ LET m == tasks[i].m IN
       \E ok \in StoreAnswers :
          IF ok
          THEN /\ nodes' = SetOrg(MergeKey(nodes, m.Path, m.Version), m.Path, m.Version, extractOrg(m.Path))
               /\ edges' = SetOrgEdges(edges, m.Path, m.Version, extractOrg(m.Path))
               /\ Goto(i, "modfile")
          ELSE ReturnErr(i) /\ UNCHANGED <<nodes, edges>>
    /\ UNCHANGED <<envVars, feedVars, dedupVars, mainVars, fanouts, cacheVars>>

cur_getModFile(i) ==
    /\ engine = "cur"
    /\ tasks[i].pc = "modfile"
    /\ LET m == tasks[i].m IN
       \E s1 \in Answers(ModFileExists(world, m.Path, m.Version), TRUE),
          s2 \in Answers(ModFileExists(world, m.Path, m.Version), FALSE) :
            IF TwoTier(ErrOfModFile(s1), ErrOfModFile(s2)) = "ok"
            THEN Goto(i, "deps")
            ELSE Return(i, "skip")
    /\ UNCHANGED <<envVars, feedVars, dedupVars, mainVars, fanouts, storeVars, cacheVars>>

\* UNWIND $dependencies AS dep MERGE (dependency) MERGE (dependent)
\* MERGE (dependent)-[:DEPENDS_ON]->(dependency), one row per direct requirement.
RECURSIVE curUnwind(_, _, _)
curUnwind(store, m, deps) ==
    IF deps = <<>> THEN store
    ELSE LET d  == Head(deps)
             ns == MergeKey(MergeKey(store.nodes, d.Path, d.Version), m.Path, m.Version)
             es == MergeEdges(store.edges,
                              {Edge(f, t) : f \in MatchKey(ns, m.Path, m.Version),
                                            t \in MatchKey(ns, d.Path, d.Version)})
         IN  curUnwind([nodes |-> ns, edges |-> es], m, Tail(deps))

cur_createDependencies(i) ==
    /\ engine = "cur"
    /\ tasks[i].pc = "deps"
    /\ LET m == tasks[i].m
           after == curUnwind([nodes |-> nodes, edges |-> edges], m, Direct(Require(world, m.Path)))
       IN  \E ok \in StoreAnswers :
             IF ok
             THEN nodes' = after.nodes /\ edges' = after.edges /\ Return(i, "ok")
             ELSE ReturnErr(i) /\ UNCHANGED <<nodes, edges>>
    /\ UNCHANGED <<envVars, feedVars, dedupVars, mainVars, fanouts, cacheVars>>

CurNext ==
    \/ cur_Produce
    \/ cur_Close
    \/ cur_Receive
    \/ cur_RangeEnd
    \/ cur_Go
    \/ cur_Wait
    \/ \E i \in DOMAIN tasks :
          \/ cur_getModuleInfo(i)
          \/ cur_getLatestModuleInfo(i)
          \/ cur_parseVersion(i)
          \/ cur_createModuleNode(i)
          \/ cur_getModFile(i)
          \/ cur_createDependencies(i)

CurSpec == CurInit /\ [][CurNext]_vars

----------------------------------------------------------------------------
\* What the older engines (rec, list, chan) share.

\* modFile.Module.Mod of the go.mod served for path p: a module directive
\* carries the path and no version.
ModFileModule(w, p) == Mod(p, NoVersion)

\* Whether the go.mod has a module directive (modFile.Module # nil).
HasModule(w, p) == p \in Paths

\* dependsOn: the direct requirements, paths lower-cased.
RECURSIVE LowerAll(_)
LowerAll(ms) ==
    IF ms = <<>> THEN <<>>
    ELSE <<Mod(ToLower(Head(ms).Path), Head(ms).Version)>> \o LowerAll(Tail(ms))

dependsOn(w, p) == LowerAll(Direct(Require(w, p)))

\* Goroutines that hold a slot of the sem channel.
NumHolding == Cardinality({i \in DOMAIN tasks : tasks[i].pc \notin {"sem", "done"}})

----------------------------------------------------------------------------
\* chan: the chModules engine (unnamed/part_008:1-332).

ChanSeedLines == {PA, PB, PBU}

\* loadInitialModules: one module per line, path lower-cased, no version.
chan_loadInitialModules(lines) == [i \in 1..Len(lines) |-> Mod(ToLower(lines[i]), NoVersion)]

ChanInit ==
    /\ InitCommon
    /\ engine = "chan"
    /\ queue = <<>>
    /\ pending = {}
    /\ initialModules \in {chan_loadInitialModules(l) : l \in SeqsUpTo(ChanSeedLines, MaxSeedLen)}
    /\ mainPc = "range"

\* pendingModules.LoadOrStore(path): one atomic check-and-insert.
\* A Load that leaves the map as it is.
LoadWithoutStore(set, key) == [loaded |-> key \in set, set |-> set]

LoadOrStore(set, key) == [loaded |-> key \in set, set |-> set \cup {key}]

\* The seed goroutine: LoadOrStore(m.Path); an already pending seed is dropped.
chan_ProduceLoad ==
    /\ engine = "chan"
    /\ prodPc = "load"
    /\ sent < Len(initialModules)
    /\ LET r == LoadOrStore(pending, initialModules[sent + 1].Path) IN
        /\ pending' = r.set
        /\ IF r.loaded
           THEN sent' = sent + 1 /\ prodPc' = "load"
           ELSE sent' = sent /\ prodPc' = "send"
    /\ UNCHANGED <<envVars, queue, closed, known, mainVars, groupVars, fanouts, storeVars, cacheVars>>

\* chModules <- m, blocking while the channel is full.  Nothing closes chModules.
chan_ProduceSend ==
    /\ engine = "chan"
    /\ prodPc = "send"
    /\ Len(queue) < QueueCap
    /\ queue' = Append(queue, initialModules[sent + 1])
    /\ sent' = sent + 1
    /\ prodPc' = "load"
    /\ UNCHANGED <<envVars, closed, dedupVars, mainVars, groupVars, fanouts, storeVars, cacheVars>>

\* for m := range chModules { g.Go(...) }: the errgroup has no limit, the
\* goroutine starts at once and waits for the semaphore itself.
chan_Go ==
    /\ engine = "chan"
    /\ mainPc = "range"
    /\ queue # <<>>
    /\ tasks' = Append(tasks, Task(Head(queue), "sem"))
    /\ queue' = Tail(queue)
    /\ UNCHANGED <<envVars, sent, closed, prodPc, dedupVars, mainVars, gErr, cancelled,
                   fanouts, storeVars, cacheVars>>

\* sem <- struct{}{}
\* sem <- struct{}{}
chan_Acquire(i) ==
    /\ engine = "chan"
    /\ tasks[i].pc = "sem"
    /\ NumHolding < Parallel
    /\ Goto(i, IF tasks[i].m.Version = NoVersion THEN "latest" ELSE "modfile")
    /\ UNCHANGED <<envVars, feedVars, dedupVars, mainVars, fanouts, storeVars, cacheVars>>

\* processModule, modulePath.Version == "": GetModuleLatestInfo, two tiers.
chan_getLatest(i) ==
    /\ engine = "chan"
    /\ tasks[i].pc = "latest"
    /\ LET m == tasks[i].m IN
       \E s1 \in Answers(LatestExists(world, m.Path), TRUE),
          s2 \in Answers(LatestExists(world, m.Path), FALSE) :
            IF TwoTier(ErrOfLatest(s1), ErrOfLatest(s2)) = "ok"
            THEN /\ tasks' = [tasks EXCEPT ![i].pc = "modfile", ![i].ver = LatestVersion(world, m.Path)]
                 /\ UNCHANGED <<gErr, cancelled>>
            ELSE Return(i, "skip")
    /\ UNCHANGED <<envVars, feedVars, dedupVars, mainVars, fanouts, storeVars, cacheVars>>

\* GetModuleModFile, two tiers, then the modFile.Module == nil check.
chan_getModFile(i) ==
    /\ engine = "chan"
    /\ tasks[i].pc = "modfile"
    /\ LET m == tasks[i].m IN
       \E s1 \in Answers(ModFileExists(world, m.Path, tasks[i].ver), TRUE),
          s2 \in Answers(ModFileExists(world, m.Path, tasks[i].ver), FALSE) :
            IF TwoTier(ErrOfModFile(s1), ErrOfModFile(s2)) = "ok" /\ HasModule(world, m.Path)
            THEN Goto(i, "node")
            ELSE Return(i, "skip")
    /\ UNCHANGED <<envVars, feedVars, dedupVars, mainVars, fanouts, storeVars, cacheVars>>

\* MERGE (m:Module {name: modFile.Module.Mod.Path, version: modFile.Module.Mod.Version})
chan_createModuleNode(i) ==
    /\ engine = "chan"
    /\ tasks[i].pc = "node"
    /\ LET self == ModFileModule(world, tasks[i].m.Path) IN
       \E ok \in StoreAnswers :
          IF ok
          THEN nodes' = MergeKey(nodes, self.Path, self.Version) /\ Goto(i, "deps")
          ELSE ReturnErr(i) /\ UNCHANGED nodes
    /\ UNCHANGED <<envVars, feedVars, dedupVars, mainVars, fanouts, edges, cacheVars>>

\* UNWIND $dependencies AS dep MERGE (dependency {name, version, org})
\* MERGE (dependent {name, version, org}) MERGE DEPENDS_ON MERGE IS_DEPENDED_ON_BY.
RECURSIVE chanUnwind(_, _, _)
chanUnwind(store, self, deps) ==
    IF deps = <<>> THEN store
    ELSE LET d    == Head(deps)
             dep  == Node(d.Path, d.Version, extractOrg(d.Path))
             dpt  == Node(self.Path, self.Version, extractOrg(self.Path))
             ns   == MergeOrg(MergeOrg(store.nodes, dep.name, dep.version, dep.org),
                              dpt.name, dpt.version, dpt.org)
             es   == MergeEdges(store.edges, {Edge(dpt, dep), RevEdge(dep, dpt)})
         IN  chanUnwind([nodes |-> ns, edges |-> es], self, Tail(deps))

\* The batch write; then, back in the handler's closure, the dependencies are
\* handed to a new goroutine through chDependencies and the worker returns.
chan_createDependencies(i) ==
    /\ engine = "chan"
    /\ tasks[i].pc = "deps"
    /\ LET m     == tasks[i].m
           deps  == dependsOn(world, m.Path)
           after == chanUnwind([nodes |-> nodes, edges |-> edges], ModFileModule(world, m.Path), deps)
       IN  \E ok \in StoreAnswers :
             IF ok
             THEN /\ nodes' = after.nodes
                  /\ edges' = after.edges
                  /\ Return(i, "ok")
                  /\ fanouts' = Append(fanouts, [deps |-> deps, k |-> 0, pc |-> "load"])
             ELSE ReturnErr(i) /\ UNCHANGED <<nodes, edges, fanouts>>
    /\ UNCHANGED <<envVars, feedVars, dedupVars, mainVars, cacheVars>>

\* The fan-out goroutine: for dependency := range chDependencies, LoadOrStore.
chan_FanLoad(f) ==
    /\ engine = "chan"
    /\ fanouts[f].pc = "load"
    /\ fanouts[f].k < Len(fanouts[f].deps)
    /\ LET r == LoadOrStore(pending, fanouts[f].deps[fanouts[f].k + 1].Path) IN
        /\ pending' = r.set
        /\ fanouts' = IF r.loaded
                      THEN [fanouts EXCEPT ![f].k = @ + 1]
                      ELSE [fanouts EXCEPT ![f].pc = "send"]
    /\ UNCHANGED <<envVars, feedVars, known, mainVars, groupVars, storeVars, cacheVars>>

\* chModules <- dependency, blocking while the channel is full.
chan_FanSend(f) ==
    /\ engine = "chan"
    /\ fanouts[f].pc = "send"
    /\ Len(queue) < QueueCap
    /\ queue' = Append(queue, fanouts[f].deps[fanouts[f].k + 1])
    /\ fanouts' = [fanouts EXCEPT ![f].k = @ + 1, ![f].pc = "load"]
    /\ UNCHANGED <<envVars, sent, closed, prodPc, dedupVars, mainVars, groupVars, storeVars, cacheVars>>

\* The handler stays in `for m := range chModules` once every goroutine has
\* finished.  The Go runtime ends the process ("all goroutines are asleep",
\* status 2) only if it sees no goroutine that could still run; the idle
\* connections of the HTTP client and of the driver may keep it from that.
chan_Deadlock ==
    /\ engine = "chan"
    /\ exitCode = "none"
    /\ queue = <<>>
    /\ sent = Len(initialModules)
    /\ NumActive = 0
    /\ \A f \in DOMAIN fanouts : fanouts[f].pc = "load" /\ fanouts[f].k = Len(fanouts[f].deps)
    /\ exitCode' = "2"
    /\ mainPc' = "crashed"
    /\ UNCHANGED <<envVars, feedVars, dedupVars, mainM, groupVars, fanouts, storeVars, cacheVars>>

\* The steps of the goroutines.
ChanStep ==
    \/ chan_ProduceLoad
    \/ chan_ProduceSend
    \/ chan_Go
    \/ \E i \in DOMAIN tasks :
          \/ chan_Acquire(i)
          \/ chan_getLatest(i)
          \/ chan_getModFile(i)
          \/ chan_createModuleNode(i)
          \/ chan_createDependencies(i)
    \/ \E f \in DOMAIN fanouts :
          \/ chan_FanLoad(f)
          \/ chan_FanSend(f)

ChanNext == ChanStep \/ chan_Deadlock

ChanSpec == ChanInit /\ [][ChanNext]_vars

\* The goroutines of the chan engine are scheduled fairly; the runtime's
\* deadlock report is not something the program can count on.
ChanFairSpec == ChanSpec /\ WF_vars(ChanStep)

----------------------------------------------------------------------------
\* list: the engine over a growing modules slice (unnamed/part_008:675-935),
\* and rec: the recursive processModules of main.go (unnamed/part_002).
\* Both write one dependency at a time: node, DEPENDS_ON, IS_DEPENDED_ON_BY.

ModU(url, p, v) == [Path |-> p, Version |-> v, URL |-> url]

\* The dependencies a goroutine walks: lower-cased in list, as declared in rec.
oldDeps(i) ==
    IF engine = "list" THEN dependsOn(world, tasks[i].m.Path)
    ELSE [j \in 1..Len(Direct(Require(world, tasks[i].m.Path))) |->
            ModU("", Direct(Require(world, tasks[i].m.Path))[j].Path,
                     Direct(Require(world, tasks[i].m.Path))[j].Version)]

\* The goroutine going on without `sem <- struct{}{}`.
old_NoAcquire(i) ==
    /\ engine \in {"list", "rec"}
    /\ tasks[i].pc = "sem"
    /\ Goto(i, IF tasks[i].m.Version = NoVersion THEN "latest" ELSE "modfile")
    /\ UNCHANGED <<envVars, feedVars, dedupVars, mainVars, fanouts, storeVars, cacheVars>>

\* sem <- struct{}{}
old_Acquire(i) ==
    /\ engine \in {"list", "rec"}
    /\ tasks[i].pc = "sem"
    /\ NumHolding < Parallel
    /\ Goto(i, IF tasks[i].m.Version = NoVersion THEN "latest" ELSE "modfile")
    /\ UNCHANGED <<envVars, feedVars, dedupVars, mainVars, fanouts, storeVars, cacheVars>>

\* MERGE (m:Module {name: modFile.Module.Mod.Path, version: modFile.Module.Mod.Version})
old_createModuleNode(i) ==
    /\ engine \in {"list", "rec"}
    /\ tasks[i].pc = "node"
    /\ LET self == ModFileModule(world, tasks[i].m.Path) IN
       \E ok \in StoreAnswers :
          IF ok
          THEN /\ nodes' = MergeKey(nodes, self.Path, self.Version)
               /\ Goto(i, IF oldDeps(i) = <<>> THEN "expand" ELSE "depnode")
          ELSE ReturnErr(i) /\ UNCHANGED nodes
    /\ UNCHANGED <<envVars, feedVars, dedupVars, mainVars, fanouts, edges, cacheVars>>

\* MERGE (m:Module {name, version[, org]}) for dependency k+1.
old_createDependencyNode(i) ==
    /\ engine \in {"list", "rec"}
    /\ tasks[i].pc = "depnode"
    /\ LET d == oldDeps(i)[tasks[i].k + 1] IN
       \E ok \in StoreAnswers :
          IF ok
          THEN /\ nodes' = IF engine = "list"
                           THEN MergeOrg(nodes, d.Path, d.Version, extractOrg(d.Path))
                           ELSE MergeKey(nodes, d.Path, d.Version)
               /\ Goto(i, "depedge")
          ELSE ReturnErr(i) /\ UNCHANGED nodes
    /\ UNCHANGED <<envVars, feedVars, dedupVars, mainVars, fanouts, edges, cacheVars>>

\* MATCH (a {name, version}), (b {name, version}) MERGE (a)-[:DEPENDS_ON]->(b)
old_createDependsOn(i) ==
    /\ engine \in {"list", "rec"}
    /\ tasks[i].pc = "depedge"
    /\ LET d    == oldDeps(i)[tasks[i].k + 1]
           self == ModFileModule(world, tasks[i].m.Path)
       IN  \E ok \in StoreAnswers :
             IF ok
             THEN /\ edges' = MergeEdges(edges, {Edge(a, b) : a \in MatchKey(nodes, self.Path, self.Version),
                                                               b \in MatchKey(nodes, d.Path, d.Version)})
                  /\ Goto(i, "deprev")
             ELSE ReturnErr(i) /\ UNCHANGED edges
    /\ UNCHANGED <<envVars, feedVars, dedupVars, mainVars, fanouts, nodes, cacheVars>>

\* MATCH (a), (b) MERGE (b)-[:IS_DEPENDED_ON_BY]->(a); then the next dependency.
old_createIsDependedOnBy(i) ==
    /\ engine \in {"list", "rec"}
    /\ tasks[i].pc = "deprev"
    /\ LET d    == oldDeps(i)[tasks[i].k + 1]
           self == ModFileModule(world, tasks[i].m.Path)
           last == tasks[i].k + 1 = Len(oldDeps(i))
       IN  \E ok \in StoreAnswers :
             IF ok
             THEN /\ edges' = MergeEdges(edges, {RevEdge(b, a) : a \in MatchKey(nodes, self.Path, self.Version),
                                                                  b \in MatchKey(nodes, d.Path, d.Version)})
                  /\ tasks' = [tasks EXCEPT ![i].pc = IF last THEN "expand" ELSE "depnode",
                                            ![i].k = IF last THEN 0 ELSE @ + 1]
                  /\ UNCHANGED <<gErr, cancelled>>
             ELSE ReturnErr(i) /\ UNCHANGED edges
    /\ UNCHANGED <<envVars, feedVars, dedupVars, mainVars, fanouts, nodes, cacheVars>>

\* g.Wait(), then os.Exit(1), or close(sem) and the normal end.
old_Wait ==
    /\ engine \in {"list", "rec", "part"}
    /\ mainPc = "wait"
    /\ NumActive = 0
    /\ mainPc' = IF gErr THEN "exited" ELSE "returned"
    /\ exitCode' = IF gErr THEN "1" ELSE "0"
    /\ UNCHANGED <<envVars, feedVars, dedupVars, mainM, groupVars, fanouts, storeVars, cacheVars>>

----------------------------------------------------------------------------
\* list.

ListSeedLines == {PA, PB, PBU}

\* The handler reads the seed itself: modules holds the lower-cased paths,
\* pendingModules the lines as read.
ListInit ==
    /\ InitCommon
    /\ engine = "list"
    /\ \E l \in SeqsUpTo(ListSeedLines, MaxSeedLen) :
          /\ initialModules = chan_loadInitialModules(l)
          /\ pending = {l[j] : j \in 1..Len(l)}
    /\ queue = initialModules
    /\ mainPc = "range"

\* for i := 0; ; i++: one iteration that finds modules[i].
list_Loop ==
    /\ engine = "list"
    /\ mainPc = "range"
    /\ sent < Len(queue)
    /\ LET r == LoadOrStore(known, queue[sent + 1]) IN
        /\ known' = r.set
        /\ tasks' = IF r.loaded THEN tasks ELSE Append(tasks, Task(queue[sent + 1], "sem"))
    /\ sent' = sent + 1
    /\ UNCHANGED <<envVars, queue, closed, prodPc, pending, mainVars, gErr, cancelled,
                   fanouts, storeVars, cacheVars>>

\* if i >= len(modules) { break }
list_Break ==
    /\ engine = "list"
    /\ mainPc = "range"
    /\ sent >= Len(queue)
    /\ mainPc' = "wait"
    /\ UNCHANGED <<envVars, feedVars, dedupVars, mainM, exitCode, groupVars, fanouts,
                   storeVars, cacheVars>>

\* GetModuleLatestInfo, two tiers; every error returns nil, nil.
list_getLatest(i) ==
    /\ engine = "list"
    /\ tasks[i].pc = "latest"
    /\ LET m == tasks[i].m IN
       \E s1 \in Answers(LatestExists(world, m.Path), TRUE),
          s2 \in Answers(LatestExists(world, m.Path), FALSE) :
            IF TwoTier(ErrOfLatest(s1), ErrOfLatest(s2)) = "ok"
            THEN /\ tasks' = [tasks EXCEPT ![i].pc = "modfile", ![i].ver = LatestVersion(world, m.Path)]
                 /\ UNCHANGED <<gErr, cancelled>>
            ELSE Return(i, "skip")
    /\ UNCHANGED <<envVars, feedVars, dedupVars, mainVars, fanouts, storeVars, cacheVars>>

list_getModFile(i) ==
    /\ engine = "list"
    /\ tasks[i].pc = "modfile"
    /\ LET m == tasks[i].m IN
       \E s1 \in Answers(ModFileExists(world, m.Path, tasks[i].ver), TRUE),
          s2 \in Answers(ModFileExists(world, m.Path, tasks[i].ver), FALSE) :
            IF TwoTier(ErrOfModFile(s1), ErrOfModFile(s2)) = "ok" /\ HasModule(world, m.Path)
            THEN Goto(i, "node")
            ELSE Return(i, "skip")
    /\ UNCHANGED <<envVars, feedVars, dedupVars, mainVars, fanouts, storeVars, cacheVars>>

\* mxModules.Lock(); append every dependency whose path is not pending yet.
RECURSIVE listAppend(_, _)
listAppend(acc, deps) ==
    IF deps = <<>> THEN acc
    ELSE LET r == LoadOrStore(acc.pending, Head(deps).Path) IN
         listAppend([pending |-> r.set,
                     modules |-> IF r.loaded THEN acc.modules ELSE Append(acc.modules, Head(deps))],
                    Tail(deps))

list_Append(i) ==
    /\ engine = "list"
    /\ tasks[i].pc = "expand"
    /\ LET after == listAppend([pending |-> pending, modules |-> queue], oldDeps(i)) IN
        /\ pending' = after.pending
        /\ queue' = after.modules
    /\ Return(i, "ok")
    /\ UNCHANGED <<envVars, sent, closed, prodPc, known, mainVars, fanouts, storeVars, cacheVars>>

ListNext ==
    \/ list_Loop
    \/ list_Break
    \/ old_Wait
    \/ \E i \in DOMAIN tasks :
          \/ old_Acquire(i)
          \/ list_getLatest(i)
          \/ list_getModFile(i)
          \/ old_createModuleNode(i)
          \/ old_createDependencyNode(i)
          \/ old_createDependsOn(i)
          \/ old_createIsDependedOnBy(i)
          \/ list_Append(i)

ListSpec == ListInit /\ [][ListNext]_vars

----------------------------------------------------------------------------
\* rec.

RecSeedIds == {ModU("git/a", PA, NoVersion), ModU("git/b", PB, NoVersion)}

RecInit ==
    /\ InitCommon
    /\ engine = "rec"
    /\ initialModules \in SeqsUpTo(RecSeedIds, MaxSeedLen)
    /\ queue = <<>>
    /\ pending = {}
    /\ mainPc = "load"

\* processModules called by main: knownModules.Load(module).
rec_MainLoad ==
    /\ engine = "rec"
    /\ mainPc = "load"
    /\ sent < Len(initialModules)
    /\ IF initialModules[sent + 1] \in known
       THEN sent' = sent + 1 /\ mainPc' = "load"
       ELSE sent' = sent /\ mainPc' = "store"
    /\ UNCHANGED <<envVars, queue, closed, prodPc, dedupVars, mainM, exitCode, groupVars,
                   fanouts, storeVars, cacheVars>>

\* knownModules.Store(module); g.Go(...)
rec_MainStore ==
    /\ engine = "rec"
    /\ mainPc = "store"
    /\ known' = known \cup {initialModules[sent + 1]}
    /\ tasks' = Append(tasks, Task(initialModules[sent + 1], "sem"))
    /\ sent' = sent + 1
    /\ mainPc' = "load"
    /\ UNCHANGED <<envVars, queue, closed, prodPc, pending, mainM, exitCode, gErr, cancelled,
                   fanouts, storeVars, cacheVars>>

\* processModules returns to main, which goes on to g.Wait().
rec_MainReturn ==
    /\ engine = "rec"
    /\ mainPc = "load"
    /\ sent = Len(initialModules)
    /\ mainPc' = "wait"
    /\ UNCHANGED <<envVars, feedVars, dedupVars, mainM, exitCode, groupVars, fanouts,
                   storeVars, cacheVars>>

\* GetModuleLatestInfo, one request: not-found skips, any other error is returned.
rec_getLatest(i) ==
    /\ engine = "rec"
    /\ tasks[i].pc = "latest"
    /\ LET m == tasks[i].m IN
       \E s \in Answers(LatestExists(world, m.Path), FALSE) :
            CASE ErrOfLatest(s) = "ok" ->
                    /\ tasks' = [tasks EXCEPT ![i].pc = "modfile", ![i].ver = LatestVersion(world, m.Path)]
                    /\ UNCHANGED <<gErr, cancelled>>
              [] ErrOfLatest(s) = "notfound" -> Return(i, "skip")
              [] OTHER -> ReturnErr(i)
    /\ UNCHANGED <<envVars, feedVars, dedupVars, mainVars, fanouts, storeVars, cacheVars>>

rec_getModFile(i) ==
    /\ engine = "rec"
    /\ tasks[i].pc = "modfile"
    /\ LET m == tasks[i].m IN
       \E s \in Answers(ModFileExists(world, m.Path, tasks[i].ver), FALSE) :
            CASE ErrOfModFile(s) = "ok" ->
                    IF HasModule(world, m.Path) THEN Goto(i, "node") ELSE Return(i, "skip")
              [] ErrOfModFile(s) = "notfound" -> Return(i, "skip")
              [] OTHER -> ReturnErr(i)
    /\ UNCHANGED <<envVars, feedVars, dedupVars, mainVars, fanouts, storeVars, cacheVars>>

\* processModules(dependsOn) inside the goroutine: knownModules.Load(module).
rec_Load(i) ==
    /\ engine = "rec"
    /\ tasks[i].pc = "expand"
    /\ IF tasks[i].k = Len(oldDeps(i))
       THEN Return(i, "ok")
       ELSE IF oldDeps(i)[tasks[i].k + 1] \in known
            THEN tasks' = [tasks EXCEPT ![i].k = @ + 1] /\ UNCHANGED <<gErr, cancelled>>
            ELSE Goto(i, "store")
    /\ UNCHANGED <<envVars, feedVars, dedupVars, mainVars, fanouts, storeVars, cacheVars>>

\* knownModules.Store(module); g.Go(...)
rec_Store(i) ==
    /\ engine = "rec"
    /\ tasks[i].pc = "store"
    /\ known' = known \cup {oldDeps(i)[tasks[i].k + 1]}
    /\ tasks' = Append([tasks EXCEPT ![i].pc = "expand", ![i].k = @ + 1],
                       Task(oldDeps(i)[tasks[i].k + 1], "sem"))
    /\ UNCHANGED <<envVars, feedVars, pending, mainVars, gErr, cancelled, fanouts,
                   storeVars, cacheVars>>

RecNext ==
    \/ rec_MainLoad
    \/ rec_MainStore
    \/ rec_MainReturn
    \/ old_Wait
    \/ \E i \in DOMAIN tasks :
          \/ old_Acquire(i)
          \/ rec_getLatest(i)
          \/ rec_getModFile(i)
          \/ old_createModuleNode(i)
          \/ old_createDependencyNode(i)
          \/ old_createDependsOn(i)
          \/ old_createIsDependedOnBy(i)
          \/ rec_Load(i)
          \/ rec_Store(i)

RecSpec == RecInit /\ [][RecNext]_vars

----------------------------------------------------------------------------
\* part: the hash-partitioned engine (unnamed/part_008:334-673).

\* []byte(s) for the paths of the model.
Bytes(p) ==
    CASE p = PA  -> <<101, 120, 97, 109, 112, 108, 101, 46, 99, 111, 109, 47, 97>>
      [] p = PB  -> <<101, 120, 97, 109, 112, 108, 101, 46, 99, 111, 109, 47, 98>>
      [] p = PC  -> <<103, 105, 116, 104, 117, 98, 46, 99, 111, 109, 47, 120, 47, 99>>
      [] p = PD  -> <<101, 120, 97, 109, 112, 108, 101, 46, 99, 111, 109, 47, 100>>
      [] p = PBU -> <<101, 120, 97, 109, 112, 108, 101, 46, 99, 111, 109, 47, 66>>
      [] OTHER   -> <<>>

\* hash/fnv New32a on a 32-bit word kept as two 16-bit halves.
Half == 65536
fnvOffsetHi == 33052
fnvOffsetLo == 40389
fnvPrimeHi == 256
fnvPrimeLo == 403

RECURSIVE xorBits(_, _, _)
xorBits(a, b, n) ==
    IF n = 0 THEN 0
    ELSE (((a % 2) + (b % 2)) % 2) + 2 * xorBits(a \div 2, b \div 2, n - 1)

\* hash ^= byte; hash *= prime32 (mod 2^32)
fnvStep(h, b) ==
    LET lo == ((h.lo \div 256) * 256) + xorBits(h.lo % 256, b, 8)
        pl == lo * fnvPrimeLo
    IN  [lo |-> pl % Half,
         hi |-> ((h.hi * fnvPrimeLo) + (lo * fnvPrimeHi) + (pl \div Half)) % Half]

RECURSIVE fnv32a(_, _)
fnv32a(h, bs) == IF bs = <<>> THEN h ELSE fnv32a(fnvStep(h, Head(bs)), Tail(bs))

\* int(h.Sum32() % uint32(n))
bucket(s, n) ==
    LET h == fnv32a([hi |-> fnvOffsetHi, lo |-> fnvOffsetLo], Bytes(s))
    IN  (((h.hi % n) * (Half % n)) + (h.lo % n)) % n

\* partitionModules dealing the modules out by their position in the input.
RECURSIVE partitionModulesRoundRobin(_, _)
partitionModulesRoundRobin(modules, nbPartitions) ==
    IF modules = <<>> THEN [j \in 1..nbPartitions |-> <<>>]
    ELSE LET rest == partitionModulesRoundRobin(SubSeq(modules, 1, Len(modules) - 1), nbPartitions)
             m    == modules[Len(modules)]
         IN  [rest EXCEPT ![((Len(modules) - 1) % nbPartitions) + 1] = Append(@, m)]

\* partitionModules putting each module at the head of its partition.
RECURSIVE partitionModulesPrepend(_, _)
partitionModulesPrepend(modules, nbPartitions) ==
    IF modules = <<>> THEN [j \in 1..nbPartitions |-> <<>>]
    ELSE LET rest == partitionModulesPrepend(SubSeq(modules, 1, Len(modules) - 1), nbPartitions)
             m    == modules[Len(modules)]
         IN  [rest EXCEPT ![bucket(m.Path, nbPartitions) + 1] = <<m>> \o @]

RECURSIVE partitionModules(_, _)
partitionModules(modules, nbPartitions) ==
    IF modules = <<>> THEN [j \in 1..nbPartitions |-> <<>>]
    ELSE LET rest == partitionModules(SubSeq(modules, 1, Len(modules) - 1), nbPartitions)
             m    == modules[Len(modules)]
         IN  [rest EXCEPT ![bucket(m.Path, nbPartitions) + 1] = Append(@, m)]

PartSeedIds == {Mod(PA, V1), Mod(PB, V1), Mod(PA, VShort)}

PartInit ==
    /\ InitCommon
    /\ engine = "part"
    /\ initialModules \in SeqsUpTo(PartSeedIds, MaxSeedLen)
    /\ queue = <<>>
    /\ pending = {}
    /\ mainPc = "range"

\* The goroutine of one partition.
PartTask(p) == [m |-> NoModule, pc |-> "next", res |-> "", ver |-> NoVersion, k |-> 0, part |-> p]

\* for i, p := range partitions { g.Go(...) }
part_Go ==
    /\ engine = "part"
    /\ mainPc = "range"
    /\ sent < Parallel
    /\ tasks' = Append(tasks, PartTask(partitionModules(initialModules, Parallel)[sent + 1]))
    /\ sent' = sent + 1
    /\ UNCHANGED <<envVars, queue, closed, prodPc, dedupVars, mainVars, gErr, cancelled,
                   fanouts, storeVars, cacheVars>>

part_RangeEnd ==
    /\ engine = "part"
    /\ mainPc = "range"
    /\ sent = Parallel
    /\ mainPc' = "wait"
    /\ UNCHANGED <<envVars, feedVars, dedupVars, mainM, exitCode, groupVars, fanouts,
                   storeVars, cacheVars>>

\* for _, m := range p: the next module of the partition, or return nil.
part_Range(i) ==
    /\ engine = "part"
    /\ tasks[i].pc = "next"
    /\ IF tasks[i].k = Len(tasks[i].part)
       THEN Return(i, "ok")
       ELSE /\ tasks' = [tasks EXCEPT ![i].m = tasks[i].part[tasks[i].k + 1],
                                      ![i].k = @ + 1, ![i].pc = "info"]
            /\ UNCHANGED <<gErr, cancelled>>
    /\ UNCHANGED <<envVars, feedVars, dedupVars, mainVars, fanouts, storeVars, cacheVars>>

\* getModuleInfo: an error makes processModule return nil.
part_getModuleInfo(i) ==
    /\ engine = "part"
    /\ tasks[i].pc = "info"
    /\ LET m == tasks[i].m IN
       \E s1 \in Answers(InfoExists(world, m.Path, m.Version), TRUE),
          s2 \in Answers(InfoExists(world, m.Path, m.Version), FALSE) :
            Goto(i, IF TwoTier(ErrOfInfo(s1), ErrOfInfo(s2)) = "ok" THEN "parse" ELSE "next")
    /\ UNCHANGED <<envVars, feedVars, dedupVars, mainVars, fanouts, storeVars, cacheVars>>

\* semver.Parse(m.Version): an error is returned to the errgroup.
part_Parse(i) ==
    /\ engine = "part"
    /\ tasks[i].pc = "parse"
    /\ IF parseVersion(tasks[i].m.Version).ok THEN Goto(i, "node") ELSE ReturnErr(i)
    /\ UNCHANGED <<envVars, feedVars, dedupVars, mainVars, fanouts, storeVars, cacheVars>>

part_createModuleNode(i) ==
    /\ engine = "part"
    /\ tasks[i].pc = "node"
    /\ LET m == tasks[i].m IN
       \E ok \in StoreAnswers :
          IF ok
          THEN /\ nodes' = SetOrg(MergeKey(nodes, m.Path, m.Version), m.Path, m.Version, extractOrg(m.Path))
               /\ edges' = SetOrgEdges(edges, m.Path, m.Version, extractOrg(m.Path))
               /\ Goto(i, "modfile")
          ELSE ReturnErr(i) /\ UNCHANGED <<nodes, edges>>
    /\ UNCHANGED <<envVars, feedVars, dedupVars, mainVars, fanouts, cacheVars>>

part_getModFile(i) ==
    /\ engine = "part"
    /\ tasks[i].pc = "modfile"
    /\ LET m == tasks[i].m IN
       \E s1 \in Answers(ModFileExists(world, m.Path, m.Version), TRUE),
          s2 \in Answers(ModFileExists(world, m.Path, m.Version), FALSE) :
            Goto(i, IF TwoTier(ErrOfModFile(s1), ErrOfModFile(s2)) = "ok" THEN "deps" ELSE "next")
    /\ UNCHANGED <<envVars, feedVars, dedupVars, mainVars, fanouts, storeVars, cacheVars>>

\* UNWIND $dependencies AS dep MERGE (dependency) WITH dependency
\* MATCH (dependent) CREATE (dependent)-[:DEPENDS_ON]->(dependency)
RECURSIVE partUnwind(_, _, _)
partUnwind(store, m, deps) ==
    IF deps = <<>> THEN store
    ELSE LET d  == Head(deps)
             ns == MergeKey(store.nodes, d.Path, d.Version)
             S  == {Edge(f, t) : f \in MatchKey(ns, m.Path, m.Version),
                                 t \in MatchKey(ns, d.Path, d.Version)}
         IN  partUnwind([nodes |-> ns, edges |-> store.edges (+) SetToBag(S)], m, Tail(deps))

part_createDependencies(i) ==
    /\ engine = "part"
    /\ tasks[i].pc = "deps"
    /\ LET m == tasks[i].m
           after == partUnwind([nodes |-> nodes, edges |-> edges], m, Direct(Require(world, m.Path)))
       IN  \E ok \in StoreAnswers :
             IF ok
             THEN nodes' = after.nodes /\ edges' = after.edges /\ Goto(i, "next")
             ELSE ReturnErr(i) /\ UNCHANGED <<nodes, edges>>
    /\ UNCHANGED <<envVars, feedVars, dedupVars, mainVars, fanouts, cacheVars>>

\* The command is run again on the same seed file, registry and store.
part_Rerun ==
    /\ engine = "part"
    /\ exitCode = "0"
    /\ run < MaxRuns
    /\ run' = run + 1
    /\ afterRun1' = IF run = 1 THEN [nodes |-> nodes, edges |-> edges] ELSE afterRun1
    /\ sent' = 0
    /\ tasks' = <<>>
    /\ mainPc' = "range"
    /\ exitCode' = "none"
    /\ UNCHANGED <<engine, world, netFaults, storeFaults, initialModules, lookup, parsed, cmd, queue,
                   closed, prodPc,
                   dedupVars, mainM, gErr, cancelled, fanouts, storeVars, cacheVars>>

PartNext ==
    \/ part_Go
    \/ part_RangeEnd
    \/ old_Wait
    \/ part_Rerun
    \/ \E i \in DOMAIN tasks :
          \/ part_Range(i)
          \/ part_getModuleInfo(i)
          \/ part_Parse(i)
          \/ part_createModuleNode(i)
          \/ part_getModFile(i)
          \/ part_createDependencies(i)

PartSpec == PartInit /\ [][PartNext]_vars

----------------------------------------------------------------------------
\* The claims.

\* C1: in any run, with any seed and any interleaving, processModule is
\* started at most once for each module identity.
C1_AtMostOncePerIdentity ==
    \A id \in {tasks[i].m : i \in DOMAIN tasks} :
        Cardinality({i \in DOMAIN tasks : tasks[i].m = id}) <= 1

\* C2: admission to the dedup set is atomic: two callers never both get past
\* the check for the same identity, so at most one of them inserts it and
\* goes on to start its processing.
C2_AdmissionAtomic ==
    \A i, j \in DOMAIN tasks :
        (i # j /\ tasks[i].pc = "store" /\ tasks[j].pc = "store")
            => oldDeps(i)[tasks[i].k + 1] # oldDeps(j)[tasks[j].k + 1]

\* C3: the run terminates: the handler eventually returns (or exits).
C3_RunTerminates == <>(exitCode \in {"0", "1"})

\* C4: when the run ends without a persistence failure, every identity that
\* was admitted to the work list has been handed to a worker.
C4_Completeness ==
    exitCode = "0" => \A j \in 1..Len(queue) : queue[j] \in known

\* C5: for seed [{example.com/a, ""}], latest v1.0.0 and a manifest with the
\* direct requirement example.com/b@v1.0.0, the run ends with exactly the
\* nodes a@v1.0.0 and b@v1.0.0, exactly one edge a -> b, and b processed.
C5_EndToEndGraph ==
    (world = "e2e" /\ initialModules = <<Mod(PA, NoVersion)>>
        /\ ~netFaults /\ ~storeFaults /\ exitCode # "none")
    => /\ Cardinality(nodes) = 2
       /\ {Mod(n.name, n.version) : n \in nodes} = {Mod(PA, V1), Mod(PB, V1)}
       /\ BagCardinality(edges) = 1
       /\ \E e \in DOMAIN edges : e.from.name = PA /\ e.to.name = PB
       /\ \E i \in DOMAIN tasks : tasks[i].m.Path = PB /\ tasks[i].pc = "done"

\* The key under which a goroutine writes its own node.
NodeKey(i) ==
    IF engine = "cur" THEN tasks[i].m ELSE ModFileModule(world, tasks[i].m.Path)

\* The DEPENDS_ON relationships leaving the nodes of a key, as a bag.
OutEdges(key) ==
    [e \in {x \in DOMAIN edges : x.type = "DEPENDS_ON" /\ x.from.name = key.Path
                                    /\ x.from.version = key.Version} |-> edges[e]]

\* C6: a processed module whose manifest has N direct and M indirect
\* requirements has exactly N DEPENDS_ON edges leaving it, one per direct
\* requirement, and none to an indirect requirement.
C6_EdgesPerDirectRequirement ==
    \A i \in DOMAIN tasks :
        tasks[i].res = "ok" =>
            LET reqs == Require(world, tasks[i].m.Path)
                N    == Cardinality({j \in DOMAIN reqs : ~reqs[j].Indirect})
                out  == OutEdges(NodeKey(i))
            IN  /\ BagCardinality(out) = N
                /\ \A j \in DOMAIN reqs :
                      (\E e \in DOMAIN out : e.to.name = reqs[j].Mod.Path
                                                /\ e.to.version = reqs[j].Mod.Version)
                          <=> ~reqs[j].Indirect

C6_Witness ==
    \E i \in DOMAIN tasks :
        /\ tasks[i].res = "ok"
        /\ world = "diamond"
        /\ tasks[i].m.Path = PA
        /\ BagCardinality(OutEdges(NodeKey(i))) = 2

\* C7: a second run over the same seed and registry leaves the Graph Store
\* with the node set and the edge set the first run left.
C7_Idempotence ==
    (run > 1 /\ exitCode = "0" /\ ~netFaults /\ ~storeFaults)
        => nodes = afterRun1.nodes /\ edges = afterRun1.edges

\* C8: when the manifest fetch of a discovered dependency returns not-found,
\* the run is not aborted and the Graph Store holds no node for it.
C8_NotFoundLeavesNoNode ==
    \A i \in DOMAIN tasks :
        (/\ tasks[i].res = "skip"
         /\ tasks[i].m.Version # NoVersion
         /\ ~ModFileExists(world, tasks[i].m.Path, tasks[i].m.Version)
         /\ ~netFaults /\ ~storeFaults)
        => /\ ~gErr
           /\ \A n \in nodes : n.name # tasks[i].m.Path

\* C9: once a Graph Store write has failed, the run ends with a non-zero
\* outcome.
C9_StoreFailureEndsRun == gErr ~> (exitCode \notin {"none", "0"})

\* C10: only a Graph Store failure makes the run exit with a failure status.
C10_OnlyStoreFailureAborts == ~storeFaults => exitCode # "1"

\* cur and chan together.
EdgeSpec == (CurInit \/ ChanInit) /\ [][CurNext \/ ChanNext]_vars

----------------------------------------------------------------------------
\* The three lookups of cmd/process-modules.go on their own, request by
\* request: getModuleInfo, getLatestModuleInfo, getModFile.

MaxLookups == 2

LookupKinds == {"info", "latest", "modfile"}

LookupModules == {Mod(PA, V1), Mod(PB, V1), Mod("example.com/gone", V1)}

LookupInit ==
    /\ engine = "lookup"
    /\ world \in Worlds
    /\ netFaults \in BOOLEAN
    /\ storeFaults = FALSE
    /\ cancelled \in BOOLEAN
    /\ initialModules = <<>>
    /\ sent = 0
    /\ queue = <<>>
    /\ closed = FALSE
    /\ prodPc = "load"
    /\ pending = {}
    /\ known = {}
    /\ mainPc = "range"
    /\ mainM = NoModule
    /\ tasks = <<>>
    /\ fanouts = <<>>
    /\ gErr = FALSE
    /\ exitCode = "none"
    /\ nodes = {}
    /\ edges = EmptyBag
    /\ moduleInfoCache = {}
    /\ latestModuleInfoCache = {}
    /\ run = 1
    /\ afterRun1 = [nodes |-> {}, edges |-> EmptyBag]
    /\ lookup = NoLookup
    /\ parsed = NoParse
    /\ cmd = NoCmd

lookupRest == <<engine, world, netFaults, storeFaults, initialModules, run, afterRun1, parsed, cmd,
                feedVars, dedupVars, mainVars, groupVars, fanouts, storeVars>>

\* Whether the registry answers 200 to the request of the lookup.
lookupExists(l) ==
    CASE l.kind = "info"    -> InfoExists(world, l.m.Path, l.m.Version)
      [] l.kind = "latest"  -> LatestExists(world, l.m.Path)
      [] l.kind = "modfile" -> ModFileExists(world, l.m.Path, l.m.Version)

\* The statuses a request of the lookup can get; a go.mod may fail to parse.
lookupAnswers(l, cachedOnly) ==
    Answers(lookupExists(l), cachedOnly)
        \cup (IF l.kind = "modfile" /\ netFaults /\ ~cancelled THEN {"invalid"} ELSE {})

lookupErr(l, status) ==
    CASE l.kind = "info"    -> ErrOfInfo(status)
      [] l.kind = "latest"  -> ErrOfLatest(status)
      [] l.kind = "modfile" -> ErrOfModFile(status)

\* The call: moduleInfoCache.Get / latestModuleInfoCache.Get first.
lookup_Call ==
    /\ engine = "lookup"
    /\ lookup.pc \in {"idle", "done"}
    /\ lookup.n < MaxLookups
    /\ \E kind \in LookupKinds, m \in LookupModules :
          LET hit == \/ kind = "info" /\ m \in moduleInfoCache
                     \/ kind = "latest" /\ m.Path \in latestModuleInfoCache
          IN  lookup' = [kind |-> kind, m |-> m, pc |-> IF hit THEN "done" ELSE "cached",
                         log |-> <<>>, err |-> IF hit THEN "ok" ELSE "", n |-> lookup.n + 1]
    /\ UNCHANGED <<lookupRest, cacheVars>>

\* The Add moved before the error tests: whatever came back is cached.
lookupCacheAddAlways(l, err) ==
    /\ moduleInfoCache' = IF l.kind = "info"
                          THEN moduleInfoCache \cup {l.m} ELSE moduleInfoCache
    /\ latestModuleInfoCache' = IF l.kind = "latest"
                                THEN latestModuleInfoCache \cup {l.m.Path} ELSE latestModuleInfoCache

\* The value is added to the LRU when the lookup succeeded.
lookupCacheAdd(l, err) ==
    /\ moduleInfoCache' = IF l.kind = "info" /\ err = "ok"
                          THEN moduleInfoCache \cup {l.m} ELSE moduleInfoCache
    /\ latestModuleInfoCache' = IF l.kind = "latest" /\ err = "ok"
                                THEN latestModuleInfoCache \cup {l.m.Path} ELSE latestModuleInfoCache

\* The request with cachedOnly = true, and what the caller does with its error.
lookup_Cached ==
    /\ engine = "lookup"
    /\ lookup.pc = "cached"
    /\ \E status \in lookupAnswers(lookup, TRUE) :
          LET err == lookupErr(lookup, status)
              log == Append(lookup.log, [cachedOnly |-> TRUE, status |-> status, err |-> err])
          IN  IF err # "ok" /\ IsNotFound(err)
              THEN /\ lookup' = [lookup EXCEPT !.pc = "auth", !.log = log]
                   /\ UNCHANGED cacheVars
              ELSE /\ lookup' = [lookup EXCEPT !.pc = "done", !.log = log, !.err = err]
                   /\ lookupCacheAdd(lookup, err)
    /\ UNCHANGED lookupRest

\* The request with cachedOnly = false: its error is the lookup's.
lookup_Authoritative ==
    /\ engine = "lookup"
    /\ lookup.pc = "auth"
    /\ \E status \in lookupAnswers(lookup, FALSE) :
          LET err == lookupErr(lookup, status)
              log == Append(lookup.log, [cachedOnly |-> FALSE, status |-> status, err |-> err])
          IN  /\ lookup' = [lookup EXCEPT !.pc = "done", !.log = log, !.err = err]
              /\ lookupCacheAdd(lookup, err)
    /\ UNCHANGED lookupRest

LookupNext ==
    \/ lookup_Call
    \/ lookup_Cached
    \/ lookup_Authoritative

LookupSpec == LookupInit /\ [][LookupNext]_vars

\* C11: a lookup issues the cached-only request first, the authoritative
\* request if and only if the cached-only one returned ErrModuleNotFound, and
\* never a third request; its result is that of the last request.
C11_TwoTierPolicy ==
    /\ Len(lookup.log) <= 2
    /\ \A j \in DOMAIN lookup.log : lookup.log[j].cachedOnly <=> j = 1
    /\ Len(lookup.log) = 2 => lookup.log[1].err = "notfound"
    /\ (lookup.pc = "done" /\ lookup.log # <<>> /\ lookup.log[1].err = "notfound")
          => Len(lookup.log) = 2
    /\ (lookup.pc = "done" /\ lookup.log # <<>>)
          => lookup.err = lookup.log[Len(lookup.log)].err

C11_Witness ==
    /\ lookup.pc = "done"
    /\ Len(lookup.log) = 2
    /\ lookup.log[2].err = "notfound"
    /\ lookup.kind = "modfile"

----------------------------------------------------------------------------
\* semver.Parse on its own, over every short version string and the
\* versions the documentation names.

MaxVersionLen == 5

VersionAlphabet == {"v", "1", ".", "-", "+"}

NamedVersions ==
    {<<"v", "1", ".", "2", ".", "3">>,
     <<"v", "1", ".", "2", ".", "3", "-", "b", "e", "t", "a", ".", "1">>,
     <<"v", "2", ".", "0", ".", "0", "+", "m", "e", "t", "a">>,
     <<"1", ".", "2">>,
     <<"v", "1", ".", "2", ".", "3", ".", "4">>,
     <<"v", "1", ".", "0", ".", "0", "+", "b", "-", "5">>}

ParseInit ==
    /\ engine = "parse"
    /\ world = "e2e"
    /\ netFaults = FALSE
    /\ storeFaults = FALSE
    /\ cancelled = FALSE
    /\ initialModules = <<>>
    /\ sent = 0
    /\ queue = <<>>
    /\ closed = FALSE
    /\ prodPc = "load"
    /\ pending = {}
    /\ known = {}
    /\ mainPc = "range"
    /\ mainM = NoModule
    /\ tasks = <<>>
    /\ fanouts = <<>>
    /\ gErr = FALSE
    /\ exitCode = "none"
    /\ nodes = {}
    /\ edges = EmptyBag
    /\ moduleInfoCache = {}
    /\ latestModuleInfoCache = {}
    /\ run = 1
    /\ afterRun1 = [nodes |-> {}, edges |-> EmptyBag]
    /\ lookup = NoLookup
    /\ cmd = NoCmd
    /\ \E v \in SeqsUpTo(VersionAlphabet, MaxVersionLen) \cup NamedVersions :
          parsed = [version |-> v, pc |-> "call", out |-> ZeroSemver]

\* semver, err := semver.Parse(m.Version)
parse_Call ==
    /\ engine = "parse"
    /\ parsed.pc = "call"
    /\ parsed' = [parsed EXCEPT !.pc = "done", !.out = Parse(parsed.version)]
    /\ UNCHANGED <<engine, world, netFaults, storeFaults, initialModules, run, afterRun1, lookup,
                   cmd, feedVars, dedupVars, mainVars, groupVars, fanouts, storeVars, cacheVars>>

ParseNext == parse_Call

ParseSpec == ParseInit /\ [][ParseNext]_vars

Has(s, c) == \E j \in DOMAIN s : s[j] = c

\* C12: Parse("v1.2.3") = {1,2,3,""}, Parse("v1.2.3-beta.1") = {1,2,3,"beta.1"},
\* Parse("v2.0.0+meta") = {2,0,0,"meta"}, and for every input the returned
\* major, minor and patch hold no '-' and no '+'.
C12_ParseResult ==
    parsed.pc = "done" =>
        /\ parsed.version = <<"v", "1", ".", "2", ".", "3">>
              => parsed.out = [ok |-> TRUE, Major |-> <<"1">>, Minor |-> <<"2">>,
                               Patch |-> <<"3">>, Label |-> <<>>]
        /\ parsed.version = <<"v", "1", ".", "2", ".", "3", "-", "b", "e", "t", "a", ".", "1">>
              => parsed.out = [ok |-> TRUE, Major |-> <<"1">>, Minor |-> <<"2">>,
                               Patch |-> <<"3">>, Label |-> <<"b", "e", "t", "a", ".", "1">>]
        /\ parsed.version = <<"v", "2", ".", "0", ".", "0", "+", "m", "e", "t", "a">>
              => parsed.out = [ok |-> TRUE, Major |-> <<"2">>, Minor |-> <<"0">>,
                               Patch |-> <<"0">>, Label |-> <<"m", "e", "t", "a">>]
        /\ \A part \in {parsed.out.Major, parsed.out.Minor, parsed.out.Patch} :
              ~Has(part, "-") /\ ~Has(part, "+")

\* What is left of a version once the leading 'v' and the label (from the
\* first '-', or without a '-' from the first '+') are taken away.
CoreEnd(s) ==
    IF Has(s, "-") THEN (CHOOSE j \in DOMAIN s : s[j] = "-" /\ \A h \in 1..(j - 1) : s[h] # "-") - 1
    ELSE IF Has(s, "+") THEN (CHOOSE j \in DOMAIN s : s[j] = "+" /\ \A h \in 1..(j - 1) : s[h] # "+") - 1
    ELSE Len(s)

NumTokens(version) ==
    LET s == IF version # <<>> /\ Head(version) = "v" THEN Tail(version) ELSE version
    IN  Cardinality({j \in 1..CoreEnd(s) : s[j] = "."}) + 1

\* C13: Parse fails exactly when what is left after the prefix and the label
\* does not split on '.' into three tokens, and then returns the zero value.
C13_ParseError ==
    parsed.pc = "done" =>
        /\ parsed.out.ok <=> NumTokens(parsed.version) = 3
        /\ ~parsed.out.ok => parsed.out = ZeroSemver

C13_Witness ==
    /\ parsed.pc = "done"
    /\ parsed.version = <<"v", "1", ".", "2", ".", "3", ".", "4">>
    /\ ~parsed.out.ok

\* The goroutines that are inside processModule.
InProcessModule ==
    IF engine \in {"cur", "part"} THEN NumActive ELSE NumHolding

\* C14: at every moment of a run the number of workers inside processModule
\* is at most the configured parallelism.
C14_BoundedParallelism == InProcessModule <= Parallel

C14_Witness ==
    /\ engine = "rec"
    /\ InProcessModule = Parallel
    /\ \E i \in DOMAIN tasks : tasks[i].pc = "sem"

\* C15: in every state the Graph Store holds at most one Module node per
\* (name, version) and at most one DEPENDS_ON edge per ordered pair of nodes.
C15_StoreUniqueness ==
    /\ \A n1, n2 \in nodes : (n1.name = n2.name /\ n1.version = n2.version) => n1 = n2
    /\ \A e \in DOMAIN edges : e.type = "DEPENDS_ON" => edges[e] = 1

\* How many times a path has been admitted in the chan engine: it is about
\* to be sent, on chModules, or with a goroutine.
NumAdmitted(p) ==
    Cardinality({i \in DOMAIN tasks : tasks[i].m.Path = p})
    + Cardinality({j \in DOMAIN queue : queue[j].Path = p})
    + Cardinality({f \in DOMAIN fanouts :
                      fanouts[f].pc = "send" /\ fanouts[f].deps[fanouts[f].k + 1].Path = p})
    + (IF prodPc = "send" /\ initialModules[sent + 1].Path = p THEN 1 ELSE 0)

\* C16: no step removes an identity from the dedup set; what has been
\* admitted is in the set, and no later step admits it again, whether its
\* processing succeeded, was skipped or failed.
C16_DedupMonotonic ==
    /\ [](\A p \in Paths \cup {PBU} : NumAdmitted(p) >= 1 => p \in pending)
    /\ [][/\ pending \subseteq pending'
          /\ \A p \in pending : NumAdmitted(p)' = NumAdmitted(p)]_vars

C16_Witness ==
    /\ engine = "chan"
    /\ Len(initialModules) = 2
    /\ initialModules[1] = initialModules[2]
    /\ sent = 2
    /\ \E i \in DOMAIN tasks : tasks[i].res = "skip" /\ tasks[i].m.Path \in pending

\* C17: a 404 of the registry for a version is reported by GetModuleInfo as
\* ErrModuleNotFound, so a miss of the cached-only version-info request is
\* followed by the authoritative request.
C17_GetInfoNotFound ==
    (lookup.kind = "info" /\ lookup.pc = "done" /\ lookup.log # <<>>
        /\ lookup.log[1].status = "404")
    => /\ lookup.log[1].err = "notfound"
       /\ Len(lookup.log) = 2

----------------------------------------------------------------------------
\* getLatestModuleInfo of the list-goproxy-latest command (unnamed/part_007):
\* the cached-only request goes through backoff.Retry.

BackoffInit ==
    /\ engine = "backoff"
    /\ world \in Worlds
    /\ netFaults \in BOOLEAN
    /\ storeFaults \in BOOLEAN
    /\ cancelled = FALSE
    /\ initialModules = <<>>
    /\ sent = 0
    /\ queue = <<>>
    /\ closed = FALSE
    /\ prodPc = "load"
    /\ pending = {}
    /\ known = {}
    /\ mainPc = "range"
    /\ mainM = NoModule
    /\ tasks = <<>>
    /\ fanouts = <<>>
    /\ gErr = FALSE
    /\ exitCode = "none"
    /\ nodes = {}
    /\ edges = EmptyBag
    /\ moduleInfoCache = {}
    /\ latestModuleInfoCache = {}
    /\ run = 1
    /\ afterRun1 = [nodes |-> {}, edges |-> EmptyBag]
    /\ parsed = NoParse
    /\ cmd = NoCmd
    /\ lookup = [kind |-> "latest", m |-> NoModule, pc |-> "idle", log |-> <<>>, err |-> "",
                 n |-> 0, tries |-> 0, version |-> NoVersion, rows |-> <<>>]

backoffRest == <<lookupRest, cacheVars>>

\* backoff.WithMaxTries(3)
MaxTries == 3

\* g.Go(func() error { latestModuleInfo, err := getLatestModuleInfo(gCtx, name, ...
backoff_Call ==
    /\ engine = "backoff"
    /\ lookup.pc \in {"idle", "done"}
    /\ lookup.n < MaxLookups
    /\ \E m \in LookupModules :
          lookup' = [lookup EXCEPT !.m = m, !.pc = "try", !.log = <<>>, !.err = "",
                                   !.n = @ + 1, !.tries = 0, !.version = NoVersion]
    /\ UNCHANGED backoffRest

\* What the operation handed to backoff.Retry returns for the client's error:
\* backoff.Permanent(err) for ErrModuleNotFound, and res, nil otherwise.
backoffOperation(err) == IF IsNotFound(err) THEN "permanent" ELSE "nil"

\* One try of backoff.Retry: the operation, then Retry's decision.
backoff_Try ==
    /\ engine = "backoff"
    /\ lookup.pc = "try"
    /\ \E status \in Answers(LatestExists(world, lookup.m.Path), TRUE) :
          LET err == ErrOfLatest(status)
              log == Append(lookup.log, [cachedOnly |-> TRUE, status |-> status, err |-> err])
              op  == backoffOperation(err)
              l   == [lookup EXCEPT !.log = log, !.tries = @ + 1]
          IN  lookup' =
                CASE op = "nil" ->
                        [l EXCEPT !.pc = "returned", !.err = "ok",
                                  !.version = IF err = "ok" THEN LatestVersion(world, lookup.m.Path)
                                              ELSE NoVersion]
                  [] op = "permanent" -> [l EXCEPT !.pc = "auth"]
                  [] OTHER ->
                        IF l.tries < MaxTries THEN l
                        ELSE [l EXCEPT !.pc = "returned", !.err = err]
    /\ UNCHANGED backoffRest

\* GetModuleLatestInfo(ctx, m, false) after ErrModuleNotFound.
backoff_Authoritative ==
    /\ engine = "backoff"
    /\ lookup.pc = "auth"
    /\ \E status \in Answers(LatestExists(world, lookup.m.Path), FALSE) :
          LET err == ErrOfLatest(status)
              log == Append(lookup.log, [cachedOnly |-> FALSE, status |-> status, err |-> err])
          IN  lookup' = [lookup EXCEPT !.pc = "returned", !.log = log, !.err = err,
                                       !.version = IF err = "ok"
                                                   THEN LatestVersion(world, lookup.m.Path)
                                                   ELSE NoVersion]
    /\ UNCHANGED backoffRest

\* The goroutine of the handler: an error skips the module, otherwise
\* chResults <- moduleResult{name, version} and the row is written.
backoff_Report ==
    /\ engine = "backoff"
    /\ lookup.pc = "returned"
    /\ lookup' = [lookup EXCEPT !.pc = "done",
                                !.rows = IF lookup.err = "ok"
                                         THEN Append(@, Mod(lookup.m.Path, lookup.version))
                                         ELSE @]
    /\ UNCHANGED backoffRest

BackoffNext ==
    \/ backoff_Call
    \/ backoff_Try
    \/ backoff_Authoritative
    \/ backoff_Report

BackoffSpec == BackoffInit /\ [][BackoffNext]_vars

\* C18: a cached call that fails with a timeout or transport error is
\* retried, up to 3 tries in total; ErrModuleNotFound is not retried; when
\* the tries are exhausted the caller gets the error, and no failed call is
\* reported as a successful lookup with an empty result.
C18_BackoffRetries ==
    lookup.pc = "done" =>
        LET cached == SelectSeq(lookup.log, LAMBDA r : r.cachedOnly)
        IN  /\ Len(cached) <= MaxTries
            /\ \A j \in 1..(Len(cached) - 1) : cached[j].err \in {"timeout", "other"}
            /\ cached[Len(cached)].err \in {"timeout", "other"}
                  => Len(cached) = MaxTries /\ lookup.err # "ok"
            /\ lookup.err = "ok" => lookup.log[Len(lookup.log)].err = "ok"
            /\ \A j \in DOMAIN lookup.rows : lookup.rows[j].Version # NoVersion

\* C19: every path, of a seed as of a discovered dependency, is lower-cased
\* before it is checked against and inserted into the dedup set, so two
\* references to a module that differ only by letter case are admitted and
\* processed at most once.
C19_CaseNormalized ==
    \A i, j \in DOMAIN tasks :
        ToLower(tasks[i].m.Path) = ToLower(tasks[j].m.Path) => i = j

\* The direct requirements of the identities whose processing returned
\* their dependencies.
ExpandedDeps ==
    UNION {{oldDeps(i)[k] : k \in DOMAIN oldDeps(i)} :
              i \in {t \in DOMAIN tasks : tasks[t].res = "ok"}}

\* C20: identity equality is on (path, version): when two expanded modules
\* require the same path at different versions, the admission of one does
\* not prevent the admission of the other, and at the end of the run both
\* have been handed to a worker.
C20_IdentityIsPathAndVersion ==
    exitCode = "0" =>
        \A d1, d2 \in ExpandedDeps :
            (d1.Path = d2.Path /\ d1.Version # d2.Version)
                => /\ \E i \in DOMAIN tasks : tasks[i].m = d1
                   /\ \E i \in DOMAIN tasks : tasks[i].m = d2

\* C21: the module node, its dependency nodes and its DEPENDS_ON edges are
\* written as one all-or-nothing batch: no store state holds the node of a
\* processed module with none or only part of the edges to its direct
\* requirements.
C21_AtomicPersistence ==
    \A n \in nodes :
        n.org # NoOrg =>
            \A d \in {Direct(Require(world, n.name))[k] :
                         k \in DOMAIN Direct(Require(world, n.name))} :
                \E e \in DOMAIN edges :
                    /\ e.type = "DEPENDS_ON"
                    /\ e.from.name = n.name /\ e.from.version = n.version
                    /\ e.to.name = d.Path /\ e.to.version = d.Version

\* C22: the steps of one identity are sequential, and the store is written
\* only after the manifest was fetched: an identity that was skipped at the
\* version resolution or at the manifest fetch has caused no store write
\* (here: when no other worker has the same path, the store holds no module
\* node for it).
C22_SkippedWritesNothing ==
    \A i \in DOMAIN tasks :
        (/\ tasks[i].res = "skip"
         /\ \A j \in DOMAIN tasks : tasks[j].m.Path = tasks[i].m.Path => j = i)
            => \A n \in nodes : n.name = tasks[i].m.Path => n.org = NoOrg

\* C23: once the run context is cancelled by a persistence failure, no
\* worker is started for an identity that had not been started before: the
\* identities still in the queue are not handed to a worker.
C23_NoNewWorkAfterCancel ==
    [][(/\ cancelled
        /\ \A i \in DOMAIN tasks : tasks[i].res = "err" => parseVersion(tasks[i].m.Version).ok)
            => Len(tasks') = Len(tasks)]_vars

\* C24: a worker has returned (slot released, counted as done) only after
\* every direct dependency it discovered was passed to the dedup set and,
\* when newly admitted, pushed onto the work queue: no fan-out of a returned
\* worker is still pending.
C24_DoneAfterFanOut ==
    \A f \in DOMAIN fanouts : fanouts[f].k = Len(fanouts[f].deps)

\* Whether a path is in the frontier or the store: in the dedup set, on the
\* work queue, with a worker, or the name of a node.
InFrontier(p) ==
    \/ p \in pending
    \/ \E j \in DOMAIN queue : queue[j].Path = p
    \/ \E i \in DOMAIN tasks : tasks[i].m.Path = p
    \/ \E n \in nodes : n.name = p

\* C25: an identity is admitted to the dedup set, enqueued or written as a
\* node only if it is a seed or a non-indirect requirement of a module that
\* was handed to a worker; what is required only indirectly is never
\* admitted, enqueued or written.
C25_OnlyDirectPropagates ==
    \A p \in Paths \cup {PBU} :
        InFrontier(p) =>
            \/ \E j \in DOMAIN initialModules : initialModules[j].Path = p
            \/ \E i \in DOMAIN tasks :
                  LET reqs == Require(world, tasks[i].m.Path)
                  IN  \E j \in DOMAIN reqs : ~reqs[j].Indirect /\ ToLower(reqs[j].Mod.Path) = p

C25_Witness ==
    /\ engine = "chan"
    /\ world = "diamond"
    /\ \E i \in DOMAIN tasks : tasks[i].m.Path = PA /\ tasks[i].res = "ok"
    /\ \A f \in DOMAIN fanouts : fanouts[f].k = Len(fanouts[f].deps)
    /\ PC \in pending
    /\ ~InFrontier(PD)

----------------------------------------------------------------------------
\* The handler of cmd/process-modules.go called a second time in one process.

\* ProcessModulesHandler's closure is entered again after it returned 0: its
\* locals (the channel, the errgroup) are new, while moduleInfoCache and
\* latestModuleInfoCache are package variables set once by init().
cur_Rerun ==
    /\ engine = "cur"
    /\ exitCode = "0"
    /\ run < MaxRuns
    /\ run' = run + 1
    /\ afterRun1' = IF run = 1 THEN [nodes |-> nodes, edges |-> edges] ELSE afterRun1
    /\ sent' = 0
    /\ queue' = <<>>
    /\ closed' = FALSE
    /\ tasks' = <<>>
    /\ mainPc' = "range"
    /\ mainM' = NoModule
    /\ exitCode' = "none"
    /\ UNCHANGED <<engine, world, netFaults, storeFaults, initialModules, lookup, parsed, cmd,
                   prodPc, dedupVars, gErr, cancelled, fanouts, storeVars, cacheVars>>

CurRerunNext == CurNext \/ cur_Rerun

CurRerunSpec == CurInit /\ [][CurRerunNext]_vars

\* C26: the result caches are constructed and owned by the run: a second
\* run in the same process starts with empty caches, so it never returns a
\* ModuleInfo that an earlier run fetched and cached.
C26_CachesScopedToRun ==
    [][run' # run => (moduleInfoCache' = {} /\ latestModuleInfoCache' = {})]_vars

\* The results getModuleInfo and getLatestModuleInfo can return for m in
\* the current state with the caches omitted.
uncachedInfo(m) ==
    {TwoTier(ErrOfInfo(s1), ErrOfInfo(s2)) :
        s1 \in Answers(InfoExists(world, m.Path, m.Version), TRUE),
        s2 \in Answers(InfoExists(world, m.Path, m.Version), FALSE)}

uncachedLatest(m) ==
    {TwoTier(ErrOfLatest(s1), ErrOfLatest(s2)) :
        s1 \in Answers(LatestExists(world, m.Path), TRUE),
        s2 \in Answers(LatestExists(world, m.Path), FALSE)}

\* Every call that is about to be answered from a cache would get the same
\* result, success, with the cache omitted.
HitsAreTransparent ==
    \A i \in DOMAIN tasks :
        /\ (tasks[i].pc = "info" /\ tasks[i].m \in moduleInfoCache)
              => uncachedInfo(tasks[i].m) = {"ok"}
        /\ (tasks[i].pc = "latest" /\ tasks[i].m.Path \in latestModuleInfoCache)
              => uncachedLatest(tasks[i].m) = {"ok"}

\* C27 as stated: against a registry whose answers do not change during the
\* run, getModuleInfo and getLatestModuleInfo return the same result with
\* the cache as with the cache omitted, under any interleaving of workers.
C27_CacheTransparent == ~netFaults => HitsAreTransparent

\* C27 amended: the same, as long as the run context is not cancelled (a
\* cache hit is returned without looking at the context, where the request
\* of the uncached call fails).
C27_CacheTransparentUntilCancel == (~netFaults /\ ~cancelled) => HitsAreTransparent

C27_Witness ==
    /\ engine = "cur"
    /\ ~netFaults
    /\ ~cancelled
    /\ \E i \in DOMAIN tasks :
          /\ tasks[i].pc = "info"
          /\ tasks[i].m \in moduleInfoCache
          /\ tasks[i].m.Path \in latestModuleInfoCache

\* C28: at every moment the work queue holds at most its capacity and at
\* most Parallel worker tasks are spawned and not yet returned, whatever the
\* size of the dependency graph.
C28_BoundedResources ==
    /\ Len(queue) <= QueueCap
    /\ NumActive <= Parallel

\* One run of the partitioned handler.
PartRunNext ==
    \/ part_Go
    \/ part_RangeEnd
    \/ old_Wait
    \/ \E i \in DOMAIN tasks :
          \/ part_Range(i)
          \/ part_getModuleInfo(i)
          \/ part_Parse(i)
          \/ part_createModuleNode(i)
          \/ part_getModFile(i)
          \/ part_createDependencies(i)

PartRunSpec == PartInit /\ [][PartRunNext]_vars

\* C29: partitionModules(modules, n) is a partition of its input: partition
\* j holds, in input order, exactly the modules whose path has bucket j, a
\* number in 0..n-1; and a partitioned run that ended without error has
\* called processModule once per seed record.
C29_PartitionModules ==
    /\ (engine = "part" /\ run = 1 /\ sent = 0) => \A n \in 1..(Parallel + 1) :
          LET P == partitionModules(initialModules, n)
          IN  /\ Len(P) = n
              /\ \A j \in DOMAIN initialModules : bucket(initialModules[j].Path, n) \in 0..(n - 1)
              /\ \A b \in 1..n :
                    P[b] = SelectSeq(initialModules, LAMBDA m : bucket(m.Path, n) = b - 1)
    /\ (engine = "part" /\ exitCode = "0")
          => /\ Len(tasks) = Parallel
             /\ \A i \in DOMAIN tasks :
                   /\ tasks[i].part = SelectSeq(initialModules,
                                                LAMBDA m : bucket(m.Path, Parallel) = i - 1)
                   /\ tasks[i].k = Len(tasks[i].part)

C29_Witness ==
    /\ engine = "part"
    /\ exitCode = "0"
    /\ Len(initialModules) = 2
    /\ initialModules[1] # initialModules[2]
    /\ \E i \in DOMAIN tasks : Len(tasks[i].part) = 2 /\ tasks[i].k = 2

\* Whether the goroutine of a partition is inside processModule.
InProcessModuleOf(i) == tasks[i].pc \notin {"next", "done"}

\* C30: in the partitioned engine two modules with the same path are never
\* processed concurrently: all versions of a path are in one partition and
\* are processed by its worker one after the other, in the order of the
\* partition.
C30_SamePathSameWorker ==
    engine = "part" =>
        /\ \A i, j \in DOMAIN tasks :
              i # j =>
                 /\ \A a \in DOMAIN tasks[i].part, b \in DOMAIN tasks[j].part :
                       tasks[i].part[a].Path # tasks[j].part[b].Path
                 /\ (InProcessModuleOf(i) /\ InProcessModuleOf(j))
                       => tasks[i].m.Path # tasks[j].m.Path
        /\ \A i \in DOMAIN tasks :
              InProcessModuleOf(i) => tasks[i].m = tasks[i].part[tasks[i].k]

C30_Witness ==
    /\ engine = "part"
    /\ \E i \in DOMAIN tasks :
          /\ Len(tasks[i].part) = 2
          /\ tasks[i].part[1].Path = tasks[i].part[2].Path
          /\ tasks[i].part[1] # tasks[i].part[2]
          /\ tasks[i].k = 2
          /\ tasks[i].pc = "node"

----------------------------------------------------------------------------
\* list-goproxy-latest (unnamed/part_007:211-289): a goroutine reads the
\* module names of the store into chModules, a second one starts a lookup
\* worker per distinct name and closes chResults after g.Wait(), and the
\* handler writes what it receives from chResults.

MaxRecords == 2

PGone == "example.com/gone"

RecordNames == {PA, PB, PGone}

LatestInit ==
    /\ engine = "latest"
    /\ world \in Worlds
    /\ netFaults \in BOOLEAN
    /\ storeFaults \in BOOLEAN
    /\ cancelled = FALSE
    /\ initialModules = <<>>
    /\ sent = 0
    /\ queue = <<>>
    /\ closed = FALSE
    /\ prodPc = "load"
    /\ pending = {}
    /\ known = {}
    /\ mainPc = "range"
    /\ mainM = NoModule
    /\ tasks = <<>>
    /\ fanouts = <<>>
    /\ gErr = FALSE
    /\ exitCode = "none"
    /\ nodes = {}
    /\ edges = EmptyBag
    /\ moduleInfoCache = {}
    /\ latestModuleInfoCache = {}
    /\ run = 1
    /\ afterRun1 = [nodes |-> {}, edges |-> EmptyBag]
    /\ lookup = NoLookup
    /\ parsed = NoParse
    /\ \E names \in SeqsUpTo(RecordNames, MaxRecords) :
          cmd = [pc |-> "range", records |-> names, readerPc |-> "next",
                 chModules |-> <<>>, chModulesClosed |-> FALSE,
                 dispatchPc |-> "range", name |-> "", modulesSet |-> {},
                 workers |-> <<>>, chResults |-> <<>>, chResultsClosed |-> FALSE,
                 rows |-> <<>>]

latestRest == <<engine, world, netFaults, storeFaults, initialModules, run, afterRun1, lookup,
                parsed, feedVars, dedupVars, mainVars, groupVars, fanouts, storeVars, cacheVars>>

\* for result.Next(ctx) { ... chModules <- name }: the send blocks while the
\* channel is full and panics on a closed channel.
latest_ReadSend ==
    /\ engine = "latest"
    /\ cmd.readerPc = "next"
    /\ cmd.records # <<>>
    /\ cmd.chModulesClosed \/ Len(cmd.chModules) < Parallel
    /\ cmd' = IF cmd.chModulesClosed
              THEN [cmd EXCEPT !.pc = "panic"]
              ELSE [cmd EXCEPT !.records = Tail(@), !.chModules = Append(@, Head(cmd.records))]
    /\ UNCHANGED latestRest

\* The result ends, by exhaustion or (storeFaults) by an error of the
\* session: the deferred close(chModules).
latest_ReadClose ==
    /\ engine = "latest"
    /\ cmd.readerPc = "next"
    /\ cmd.records = <<>> \/ storeFaults
    /\ cmd' = [cmd EXCEPT !.readerPc = "done", !.chModulesClosed = TRUE]
    /\ UNCHANGED latestRest

\* for name := range chModules: a name already in modulesSet is dropped.
latest_Receive ==
    /\ engine = "latest"
    /\ cmd.dispatchPc = "range"
    /\ cmd.chModules # <<>>
    /\ LET name == Head(cmd.chModules) IN
       cmd' = IF name \in cmd.modulesSet
              THEN [cmd EXCEPT !.chModules = Tail(@)]
              ELSE [cmd EXCEPT !.chModules = Tail(@), !.modulesSet = @ \cup {name},
                               !.name = name, !.dispatchPc = "go"]
    /\ UNCHANGED latestRest

LatestActive == Cardinality({w \in DOMAIN cmd.workers : cmd.workers[w].pc # "done"})

\* g.Go under g.SetLimit(parallel).
latest_Go ==
    /\ engine = "latest"
    /\ cmd.dispatchPc = "go"
    /\ LatestActive < Parallel
    /\ cmd' = [cmd EXCEPT !.workers = Append(@, [name |-> cmd.name, pc |-> "lookup",
                                                  version |-> NoVersion]),
                          !.name = "", !.dispatchPc = "range"]
    /\ UNCHANGED latestRest

\* The range loop ends on the closed, drained chModules.
latest_RangeEnd ==
    /\ engine = "latest"
    /\ cmd.dispatchPc = "range"
    /\ cmd.chModules = <<>>
    /\ cmd.chModulesClosed
    /\ cmd' = [cmd EXCEPT !.dispatchPc = "wait"]
    /\ UNCHANGED latestRest

\* close(chResults) without the g.Wait() before it.
latest_CloseWithoutWait ==
    /\ engine = "latest"
    /\ cmd.dispatchPc = "wait"
    /\ cmd' = [cmd EXCEPT !.dispatchPc = "done", !.chResultsClosed = TRUE]
    /\ UNCHANGED latestRest

\* g.Wait(), then the deferred close(chResults).
latest_Wait ==
    /\ engine = "latest"
    /\ cmd.dispatchPc = "wait"
    /\ LatestActive = 0
    /\ cmd' = [cmd EXCEPT !.dispatchPc = "done", !.chResultsClosed = TRUE]
    /\ UNCHANGED latestRest

\* getLatestModuleInfo(gCtx, name, goProxyClient) in a worker: the retried
\* cached-only request, the authoritative one after ErrModuleNotFound; an
\* error makes the worker return nil.
latest_Lookup(w) ==
    /\ engine = "latest"
    /\ cmd.workers[w].pc = "lookup"
    /\ LET name == cmd.workers[w].name IN
       \E s1 \in Answers(LatestExists(world, name), TRUE),
          s2 \in Answers(LatestExists(world, name), FALSE) :
            LET e1 == ErrOfLatest(s1)
                e2 == ErrOfLatest(s2)
                version == IF e1 = "ok" \/ (backoffOperation(e1) = "permanent" /\ e2 = "ok")
                           THEN LatestVersion(world, name) ELSE NoVersion
                failed == backoffOperation(e1) = "permanent" /\ e2 # "ok"
            IN  cmd' = IF failed
                       THEN [cmd EXCEPT !.workers[w].pc = "done"]
                       ELSE [cmd EXCEPT !.workers[w].pc = "send", !.workers[w].version = version]
    /\ UNCHANGED latestRest

\* chResults <- moduleResult{name, version}: blocks while the channel is
\* full, panics on a closed channel.
latest_SendResult(w) ==
    /\ engine = "latest"
    /\ cmd.workers[w].pc = "send"
    /\ cmd.chResultsClosed \/ Len(cmd.chResults) < Parallel
    /\ cmd' = IF cmd.chResultsClosed
              THEN [cmd EXCEPT !.pc = "panic"]
              ELSE [cmd EXCEPT !.workers[w].pc = "done",
                               !.chResults = Append(@, Mod(cmd.workers[w].name,
                                                            cmd.workers[w].version))]
    /\ UNCHANGED latestRest

\* for res := range chResults { csvWriter.Write(...) }
latest_Write ==
    /\ engine = "latest"
    /\ cmd.pc = "range"
    /\ cmd.chResults # <<>>
    /\ cmd' = [cmd EXCEPT !.chResults = Tail(@), !.rows = Append(@, Head(cmd.chResults))]
    /\ UNCHANGED latestRest

\* The loop ends on the closed, drained chResults: return 0.
latest_Return ==
    /\ engine = "latest"
    /\ cmd.pc = "range"
    /\ cmd.chResults = <<>>
    /\ cmd.chResultsClosed
    /\ cmd' = [cmd EXCEPT !.pc = "returned"]
    /\ UNCHANGED latestRest

LatestNext ==
    \/ latest_ReadSend
    \/ latest_ReadClose
    \/ latest_Receive
    \/ latest_Go
    \/ latest_RangeEnd
    \/ latest_Wait
    \/ latest_Write
    \/ latest_Return
    \/ \E w \in (IF engine = "latest" THEN DOMAIN cmd.workers ELSE {}) :
          \/ latest_Lookup(w)
          \/ latest_SendResult(w)

LatestSpec == LatestInit /\ [][LatestNext]_vars

\* The current engine (on the diamond registry, with and without faults) and
\* list-goproxy-latest, every goroutine that can take a step eventually
\* taking one.
CloseSpec ==
    /\ (CurInit /\ world = "diamond") \/ LatestInit
    /\ [][CurNext \/ LatestNext]_vars
    /\ WF_vars(CurNext \/ LatestNext)

\* C31: no goroutine sends on a closed channel and every channel a consumer
\* ranges over is eventually closed: the seed queue is closed by its
\* producer after its last send, chResults of list-goproxy-latest is closed
\* only after every lookup worker has returned, and the consuming loops end
\* after the last result, so the handler returns.
C31_ChannelsClosed ==
    /\ [](cmd.pc # "panic")
    /\ [](closed => sent = Len(initialModules))
    /\ [](engine = "latest" =>
             /\ cmd.chResultsClosed => LatestActive = 0
             /\ cmd.pc = "returned" => (cmd.chResultsClosed /\ cmd.chResults = <<>>))
    /\ <>(/\ engine = "cur" => (closed /\ queue = <<>> /\ exitCode \in {"0", "1"})
          /\ engine = "latest" => (cmd.chModulesClosed /\ cmd.pc = "returned"))

C31_Witness ==
    /\ engine = "latest"
    /\ cmd.pc = "returned"
    /\ cmd.chResultsClosed
    /\ Len(cmd.rows) = 2

----------------------------------------------------------------------------
\* list-goproxy-modules (cmd/list-goproxy-modules.go:44-98): a goroutine
\* pages through the registry index from the cursor `since` and hands each
\* page over the unbuffered chIndex; the handler writes every lower-cased
\* path it has not seen yet.

\* goproxy.ListIndexMaxLimit, 2000 in the source, scaled down.
ListIndexMaxLimit == 2

\* Timestamps are 0..MaxTime.
MaxTime == 2

\* The variables other than cmd and storeFaults of a command that does not
\* use the registry of module documents.
CommandInit(e) ==
    /\ engine = e
    /\ world = "e2e"
    /\ netFaults = FALSE
    /\ cancelled = FALSE
    /\ initialModules = <<>>
    /\ sent = 0
    /\ queue = <<>>
    /\ closed = FALSE
    /\ prodPc = "load"
    /\ pending = {}
    /\ known = {}
    /\ mainPc = "range"
    /\ mainM = NoModule
    /\ tasks = <<>>
    /\ fanouts = <<>>
    /\ gErr = FALSE
    /\ exitCode = "none"
    /\ nodes = {}
    /\ edges = EmptyBag
    /\ moduleInfoCache = {}
    /\ latestModuleInfoCache = {}
    /\ run = 1
    /\ afterRun1 = [nodes |-> {}, edges |-> EmptyBag]
    /\ lookup = NoLookup
    /\ parsed = NoParse

\* goproxy.Index: a path, a version and the time the registry first saw it.
Index(p, v, t) == [Path |-> p, Version |-> v, Timestamp |-> t]

IndexPaths == {PA, PB, PBU}

\* What ListIndex(ctx, since) can decode from a 200 response: at most
\* ListIndexMaxLimit entries not older than the cursor, oldest first; an
\* empty body decodes to an empty page.
IndexPages(since) ==
    {page \in SeqsUpTo({Index(p, V1, t) : p \in IndexPaths, t \in since..MaxTime},
                       ListIndexMaxLimit) :
        \A i \in 1..(Len(page) - 1) : page[i].Timestamp <= page[i + 1].Timestamp}

IndexInit ==
    /\ CommandInit("index")
    /\ storeFaults = FALSE
    /\ \E until \in 0..MaxTime :
          cmd = [pc |-> "range", producerPc |-> "list", since |-> 0, until |-> until,
                 index |-> <<>>, received |-> <<>>, chIndexClosed |-> FALSE,
                 modulesSet |-> {}, rows |-> <<>>]

\* return or break in the producer goroutine, then the deferred close(chIndex).
indexReturn == [cmd EXCEPT !.producerPc = "done", !.chIndexClosed = TRUE]

\* index, err := goProxyClient.ListIndex(ctx, since), then
\* since = index[len(index)-1].Timestamp: an index out of range on an empty
\* page, a run-time panic that ends the process.
index_ListIndex ==
    /\ engine = "index"
    /\ cmd.pc # "panic"
    /\ cmd.producerPc = "list"
    /\ \/ cmd' = indexReturn
       \/ \E page \in IndexPages(cmd.since) :
             cmd' = IF page = <<>>
                    THEN [cmd EXCEPT !.pc = "panic"]
                    ELSE [cmd EXCEPT !.since = page[Len(page)].Timestamp,
                                     !.index = page, !.producerPc = "send"]
    /\ UNCHANGED latestRest

\* chIndex <- index: the channel has no buffer, the send completes when the
\* handler's range loop receives the page.
index_Send ==
    /\ engine = "index"
    /\ cmd.producerPc = "send"
    /\ cmd.pc = "range"
    /\ cmd' = [cmd EXCEPT !.producerPc = "check", !.pc = "write", !.received = cmd.index]
    /\ UNCHANGED latestRest

\* progress.Set64, then the two break conditions, else sleep and loop.
index_Check ==
    /\ engine = "index"
    /\ cmd.pc # "panic"
    /\ cmd.producerPc = "check"
    /\ \E failed \in BOOLEAN :
          cmd' = IF failed \/ Len(cmd.index) < ListIndexMaxLimit \/ cmd.since > cmd.until
                 THEN indexReturn
                 ELSE [cmd EXCEPT !.producerPc = "list"]
    /\ UNCHANGED latestRest

\* for _, i := range index: modulesSet and the output file after the
\* entries of page.
RECURSIVE writeIndex(_, _, _)
writeIndex(set, rows, page) ==
    IF page = <<>> THEN [modulesSet |-> set, rows |-> rows]
    ELSE LET path == ToLower(Head(page).Path)
         IN  IF path \in set
             THEN writeIndex(set, rows, Tail(page))
             ELSE writeIndex(set \cup {path}, Append(rows, Mod(path, Head(page).Version)),
                             Tail(page))

index_Write ==
    /\ engine = "index"
    /\ cmd.pc = "write"
    /\ LET w == writeIndex(cmd.modulesSet, cmd.rows, cmd.received)
       IN  cmd' = [cmd EXCEPT !.pc = "range", !.received = <<>>,
                              !.modulesSet = w.modulesSet, !.rows = w.rows]
    /\ UNCHANGED latestRest

\* The range loop ends on the closed chIndex: return 0.
index_Return ==
    /\ engine = "index"
    /\ cmd.pc = "range"
    /\ cmd.chIndexClosed
    /\ cmd' = [cmd EXCEPT !.pc = "returned"]
    /\ UNCHANGED latestRest

IndexNext ==
    \/ index_ListIndex
    \/ index_Send
    \/ index_Check
    \/ index_Write
    \/ index_Return

\* Both goroutines are scheduled: a step that stays possible is taken.
IndexSpec == IndexInit /\ [][IndexNext]_vars /\ WF_vars(IndexNext)

\* C32: the index-listing producer always terminates without fault and
\* closes its channel, whatever pages the registry returns, and the consumer
\* then has written each lower-cased path at most once and returns.
C32_IndexListingTerminates ==
    /\ [](cmd.pc # "panic")
    /\ [](\A i, j \in DOMAIN cmd.rows :
             /\ ToLower(cmd.rows[i].Path) = cmd.rows[i].Path
             /\ i # j => cmd.rows[i].Path # cmd.rows[j].Path)
    /\ <>(cmd.chIndexClosed /\ cmd.pc = "returned")

\* The same without the no-fault part: a full page that ends at the cursor
\* it was asked from is asked for again, forever.
IndexProducerStops == (cmd.pc # "panic") ~> (cmd.pc = "panic" \/ cmd.chIndexClosed)

\* The key of lookup l is in the cache its kind uses.
LookupHit(l) ==
    \/ l.kind = "info" /\ l.m \in moduleInfoCache
    \/ l.kind = "latest" /\ l.m.Path \in latestModuleInfoCache

\* C33: a lookup result enters a cache only on the step that ends a lookup
\* with a successful fetch, cached-only or authoritative, and it is the key
\* of that lookup; a lookup that ends in an error leaves both caches as they
\* were, so the next lookup of a key that is in no cache asks the registry.
C33_CacheOnlyAfterSuccess ==
    /\ [][engine = "lookup" =>
            /\ cacheVars' # cacheVars =>
                  /\ lookup'.pc = "done" /\ lookup'.err = "ok"
                  /\ lookup'.log # <<>> /\ lookup'.log[Len(lookup'.log)].err = "ok"
                  /\ moduleInfoCache' \subseteq moduleInfoCache \cup {lookup.m}
                  /\ latestModuleInfoCache' \subseteq latestModuleInfoCache \cup {lookup.m.Path}
            /\ (lookup.pc \in {"cached", "auth"} /\ lookup'.pc = "done" /\ lookup'.err # "ok")
                  => cacheVars' = cacheVars
            /\ (lookup'.n = lookup.n + 1 /\ ~LookupHit(lookup)')
                  => (lookup'.pc = "cached" /\ lookup'.log = <<>>)]_vars
    /\ [](engine = "lookup" /\ lookup.n = 1 /\ (lookup.pc # "done" \/ lookup.err # "ok")
             => (moduleInfoCache = {} /\ latestModuleInfoCache = {}))

\* The second lookup asks the registry after the first one failed.
C33_Witness ==
    /\ engine = "lookup"
    /\ lookup.n = 2
    /\ lookup.pc = "done"
    /\ lookup.kind = "latest"
    /\ Len(lookup.log) = 2
    /\ lookup.err = "notfound"
    /\ moduleInfoCache = {}
    /\ latestModuleInfoCache = {}

----------------------------------------------------------------------------
\* enrich-latest (unnamed/part_007:20-146): the CSV of names and latest
\* versions is read whole, then each record whose version parses is
\* appended to a batch that is sent to the store when it is full and once
\* more at the end.

\* const batchSize = 1_000, scaled down.
batchSize == 2

MaxCsvRecords == 4

CsvRecords == {Mod(p, v) : p \in {PA, PB}, v \in {V1, VShort}}

EnrichInit ==
    /\ CommandInit("enrich")
    /\ storeFaults \in BOOLEAN
    /\ \E records \in SeqsUpTo(CsvRecords, MaxCsvRecords) :
          cmd = [pc |-> "read", records |-> records, i |-> 1, batch |-> <<>>,
                 flushes |-> <<>>]

\* moduleUpdate{name, latest, latestMajor, latestMinor, latestPatch, latestLabel}
moduleUpdate(record, latestSemver) ==
    [name |-> record.Path, latest |-> record.Version,
     latestMajor |-> latestSemver.Major, latestMinor |-> latestSemver.Minor,
     latestPatch |-> latestSemver.Patch, latestLabel |-> latestSemver.Label]

\* flushBatch that leaves the batch as it is.
flushBatchKeep(c, ok) ==
    IF c.batch = <<>> THEN c
    ELSE [c EXCEPT !.flushes = Append(@, [updates |-> c.batch, ok |-> ok]),
                   !.pc = IF ok THEN c.pc ELSE "exit1"]

\* flushBatch(): nothing for an empty batch; else session.Run with the
\* updates, an error when it fails (the caller returns 1), batch = batch[:0]
\* when it succeeds.
flushBatch(c, ok) ==
    IF c.batch = <<>> THEN c
    ELSE [c EXCEPT !.flushes = Append(@, [updates |-> c.batch, ok |-> ok]),
                   !.batch = IF ok THEN <<>> ELSE @,
                   !.pc = IF ok THEN c.pc ELSE "exit1"]

\* What session.Run can answer.
RunAnswers == IF storeFaults THEN BOOLEAN ELSE {TRUE}

\* os.Open, the header and the records: any of them can fail, return 1.
enrich_Read ==
    /\ engine = "enrich"
    /\ cmd.pc = "read"
    /\ \E ok \in BOOLEAN : cmd' = [cmd EXCEPT !.pc = IF ok THEN "loop" ELSE "exit1"]
    /\ UNCHANGED latestRest

\* One iteration of for _, record := range records.
enrich_Record ==
    /\ engine = "enrich"
    /\ cmd.pc = "loop"
    /\ cmd.i <= Len(cmd.records)
    /\ LET record == cmd.records[cmd.i]
           latestSemver == Parse(Chars(record.Version))
           next == [cmd EXCEPT !.i = cmd.i + 1]
       IN  IF ~latestSemver.ok
           THEN cmd' = next
           ELSE LET appended == [next EXCEPT !.batch = Append(@, moduleUpdate(record, latestSemver))]
                IN  IF Len(appended.batch) >= batchSize
                    THEN \E ok \in RunAnswers : cmd' = flushBatch(appended, ok)
                    ELSE cmd' = appended
    /\ UNCHANGED latestRest

\* The final flushBatch(), then return 0.
enrich_Final ==
    /\ engine = "enrich"
    /\ cmd.pc = "loop"
    /\ cmd.i > Len(cmd.records)
    /\ \E ok \in RunAnswers :
          LET flushed == flushBatch(cmd, ok)
          IN  cmd' = IF flushed.pc = "exit1" THEN flushed ELSE [flushed EXCEPT !.pc = "exit0"]
    /\ UNCHANGED latestRest

EnrichNext ==
    \/ enrich_Read
    \/ enrich_Record
    \/ enrich_Final

EnrichSpec == EnrichInit /\ [][EnrichNext]_vars

\* The updates of the flushes, one after the other.
RECURSIVE FlushedUpdates(_)
FlushedUpdates(flushes) ==
    IF flushes = <<>> THEN <<>> ELSE Head(flushes).updates \o FlushedUpdates(Tail(flushes))

\* The updates of the records that parse, in input order.
RECURSIVE ParsedUpdates(_)
ParsedUpdates(records) ==
    IF records = <<>> THEN <<>>
    ELSE LET latestSemver == Parse(Chars(Head(records).Version))
         IN  (IF latestSemver.ok THEN <<moduleUpdate(Head(records), latestSemver)>> ELSE <<>>)
                 \o ParsedUpdates(Tail(records))

\* C34: every record whose version parses is sent to the store in exactly
\* one batch, in input order; no batch holds more than batchSize updates
\* and none is empty; the remainder is flushed at the end; a record whose
\* version does not parse is skipped without ending the command; a failed
\* flush ends the command with status 1 and is the last batch sent.
C34_EnrichBatching ==
    engine = "enrich" =>
        /\ \A j \in DOMAIN cmd.flushes :
              /\ Len(cmd.flushes[j].updates) \in 1..batchSize
              /\ j < Len(cmd.flushes) => cmd.flushes[j].ok
              /\ ~cmd.flushes[j].ok => cmd.pc = "exit1"
        /\ cmd.pc \in {"loop", "exit0"} =>
              /\ FlushedUpdates(cmd.flushes) \o cmd.batch
                    = ParsedUpdates(SubSeq(cmd.records, 1, cmd.i - 1))
              /\ Len(cmd.batch) < batchSize
        /\ cmd.pc = "exit0" =>
              /\ cmd.batch = <<>>
              /\ FlushedUpdates(cmd.flushes) = ParsedUpdates(cmd.records)
        /\ (cmd.pc = "exit1" /\ cmd.i > 1) =>
              (cmd.flushes # <<>> /\ ~cmd.flushes[Len(cmd.flushes)].ok)

\* Four records, one of them skipped, a full batch and the remainder.
C34_Witness ==
    /\ engine = "enrich"
    /\ cmd.pc = "exit0"
    /\ Len(cmd.records) = 4
    /\ Len(cmd.flushes) = 2
    /\ Len(cmd.flushes[2].updates) = 1

----------------------------------------------------------------------------
\* The seed loaders on their own: loadInitialModules
\* (cmd/process-modules.go:108-152) scans lines "path version", loadModules
\* (unnamed/part_008:412-469) reads CSV rows id,path,version after a header.

MaxSeedLines == 3

\* Lines as their characters: path and version, no version, a second
\* space, an empty line.
SeedFileLines ==
    {<<"a", " ", "1">>, <<"b", " ", "1">>, <<"a">>, <<"a", " ", "1", " ", "2">>, <<>>}

CsvHeader == <<"id", "path", "version">>

CsvRows == {<<"1", PA, V1>>, <<"2", PB, V1>>, <<"3", PA, VShort>>}

\* What the seed file holds: lines for "lines", a header and rows (or
\* nothing at all) for "csv".
SeedFiles(kind) ==
    IF kind = "lines" THEN SeqsUpTo(SeedFileLines, MaxSeedLines)
    ELSE {<<>>} \cup {<<CsvHeader>> \o rows : rows \in SeqsUpTo(CsvRows, MaxSeedLines)}

SeedInit ==
    /\ CommandInit("seed")
    /\ storeFaults = FALSE
    /\ \E kind \in {"lines", "csv"}, readable \in BOOLEAN, offset \in (-1)..(MaxSeedLines + 1) :
          \E file \in SeedFiles(kind) :
             cmd = [pc |-> "call", kind |-> kind, readable |-> readable, file |-> file,
                    offset |-> offset, modules |-> <<>>, err |-> ""]

\* for scanner.Scan() { nbLines++; if nbLines <= offset { continue }; ... }
RECURSIVE scanLines(_, _, _, _)
scanLines(lines, nbLines, offset, modules) ==
    IF lines = <<>> THEN modules
    ELSE LET n == nbLines + 1
             c == Cut(Head(lines), " ")
         IN  IF n <= offset
             THEN scanLines(Tail(lines), n, offset, modules)
             ELSE scanLines(Tail(lines), n, offset, Append(modules, Mod(c.before, c.after)))

\* loadInitialModules with nbLines counted from 1.
loadInitialModulesFromOne(lines, offset) == scanLines(lines, 1, offset, <<>>)

loadInitialModules(lines, offset) == scanLines(lines, 0, offset, <<>>)

\* for { record, err := reader.Read(); ...; nbLines++; if nbLines <= offset
\* { continue }; ... record[1], record[2] }
RECURSIVE readRecords(_, _, _, _)
readRecords(rows, nbLines, offset, modules) ==
    IF rows = <<>> THEN modules
    ELSE LET n == nbLines + 1
         IN  IF n <= offset
             THEN readRecords(Tail(rows), n, offset, modules)
             ELSE readRecords(Tail(rows), n, offset,
                              Append(modules, Mod(Head(rows)[2], Head(rows)[3])))

\* loadModules: the first reader.Read() takes the header, io.EOF included.
loadModules(file, offset) ==
    readRecords(IF file = <<>> THEN <<>> ELSE Tail(file), 0, offset, <<>>)

\* The call: os.Open / os.Stat / a read can fail, (nil, err).
seed_Load ==
    /\ engine = "seed"
    /\ cmd.pc = "call"
    /\ cmd' = IF ~cmd.readable
              THEN [cmd EXCEPT !.pc = "done", !.err = "error"]
              ELSE [cmd EXCEPT !.pc = "done", !.err = "ok",
                               !.modules = IF cmd.kind = "lines"
                                           THEN loadInitialModules(cmd.file, cmd.offset)
                                           ELSE loadModules(cmd.file, cmd.offset)]
    /\ UNCHANGED latestRest

SeedNext == seed_Load

SeedSpec == SeedInit /\ [][SeedNext]_vars

\* The records of the seed file: its lines, or its rows after the header.
SeedRecords == IF cmd.kind = "csv" /\ cmd.file # <<>> THEN Tail(cmd.file) ELSE cmd.file

\* Identity m is the one record r names.
IsIdentityOf(m, r) ==
    IF cmd.kind = "csv" THEN m.Path = r[2] /\ m.Version = r[3]
    ELSE /\ \A j \in DOMAIN m.Path : m.Path[j] # " "
         /\ \/ m.Path \o <<" ">> \o m.Version = r
            \/ m.Path = r /\ m.Version = <<>>

\* C35: the loader returns exactly the seed records that follow the first
\* offset records, in file order, one identity per record; offset 0 returns
\* all of them and an offset at or beyond their number returns the empty
\* list, without error.
C35_SeedOffset ==
    (engine = "seed" /\ cmd.pc = "done" /\ cmd.readable) =>
        LET skipped == IF cmd.offset < 0 THEN 0
                       ELSE IF cmd.offset > Len(SeedRecords) THEN Len(SeedRecords)
                       ELSE cmd.offset
        IN  /\ cmd.err = "ok"
            /\ Len(cmd.modules) = Len(SeedRecords) - skipped
            /\ \A k \in DOMAIN cmd.modules :
                  IsIdentityOf(cmd.modules[k], SeedRecords[skipped + k])
            /\ cmd.offset = 0 => Len(cmd.modules) = Len(SeedRecords)
            /\ cmd.offset >= Len(SeedRecords) => cmd.modules = <<>>

\* Three lines, the first skipped, the last without a version.
C35_Witness ==
    /\ engine = "seed"
    /\ cmd.pc = "done"
    /\ cmd.kind = "lines"
    /\ cmd.offset = 1
    /\ Len(cmd.file) = 3
    /\ Len(cmd.modules) = 2
    /\ cmd.modules[2].Version = <<>>

====
